---- MODULE Spec2Model ----
(***************************************************************************)
(* Nyx-Wallet price oracle (contracts/price-oracle): the contract's        *)
(* instance storage, its entry points and the node / rate-limit /          *)
(* validation / aggregation helpers they call.                             *)
(*                                                                         *)
(* Units.  TLC integers are 32 bits wide, the contract's are u64.  Stake   *)
(* amounts are counted in whole XLM (10^7 stroops), which is exact for     *)
(* every comparison and division the code makes on stakes that are         *)
(* multiples of 1 XLM.  MAX_PRICE is scaled from 10^13 to 10^7 so that a   *)
(* price above it is representable; all other constants are the source's.  *)
(* No sum or product of the modelled values reaches 2^31, so the u32/u64   *)
(* wrap-around of the source cannot occur inside the bounds.               *)
(*                                                                         *)
(* Calls.  Entry points are modelled as the test suite calls them          *)
(* (PriceOracle::submit_price(env, ...)): storage writes take effect in    *)
(* program order and an Err returned after a write does not undo it.       *)
(* caller.require_auth() is assumed to succeed (identity verification is   *)
(* the host's).                                                            *)
(***************************************************************************)
EXTENDS Integers, Sequences, FiniteSets, TLC

\* ---------------------------------------------------------------- constants
\* oracle_node.rs
MIN_STAKE_AMOUNT == 1000
MIN_REPUTATION_SCORE == 70
MAX_SUBMISSIONS_PER_HOUR == 60
RATE_LIMIT_WINDOW == 3600
REPUTATION_DECAY_TIME == 604800
MIN_SUBMISSIONS_FOR_REPUTATION == 10
\* price_data.rs
PRICE_STALENESS_THRESHOLD == 300
MAX_PRICE_DEVIATION == 10
MIN_CONFIDENCE_LEVEL == 70
MAX_HISTORY_ENTRIES == 100
\* validation.rs
MAX_PRICE == 10000000
MIN_PRICE == 1
FUTURE_TOLERANCE == 60
RECENT_THRESHOLD == 86400
expected_signature_length == 64
\* lib.rs
CLEANUP_THRESHOLD == 86400
min_oracle_nodes == 3
\* aggregation.rs
fallback_staleness_threshold == 1800

\* ------------------------------------------------------------------ helpers
\* u64::saturating_sub
saturating_sub(a, b) == IF a > b THEN a - b ELSE 0

Min2(a, b) == IF a < b THEN a ELSE b

Max2(a, b) == IF a > b THEN a ELSE b

\* soroban Map::set on a map kept as a function over its keys
MapSet(m, k, v) == [x \in (DOMAIN m) \cup {k} |-> IF x = k THEN v ELSE m[x]]

EmptyMap == << >>

RECURSIVE SeqSum(_)
SeqSum(s) == IF s = << >> THEN 0 ELSE Head(s) + SeqSum(Tail(s))

\* Insert x into the sequence s, ascending by price.
RECURSIVE InsertSorted(_, _)
InsertSorted(x, s) ==
    IF s = << >> THEN << x >>
    ELSE IF x.price <= Head(s).price THEN << x >> \o s
    ELSE << Head(s) >> \o InsertSorted(x, Tail(s))

\* Vec::sort on records ordered by their price field.
RECURSIVE SortByPrice(_)
SortByPrice(s) ==
    IF s = << >> THEN << >> ELSE InsertSorted(Head(s), SortByPrice(Tail(s)))

Reverse(s) == [i \in 1..Len(s) |-> s[Len(s) + 1 - i]]

\* -------------------------------------------------------------- OracleNode
OracleNode_new(address, stake_amount, t) ==
    [ address              |-> address,
      reputation_score     |-> 100,
      total_submissions    |-> 0,
      accurate_submissions |-> 0,
      last_submission_time |-> 0,
      is_active            |-> TRUE,
      stake_amount         |-> stake_amount,
      registered_time      |-> t ]

\* calculate_reputation giving every node the score of a new one.
calculate_reputation_ignores_accuracy(node) == 100

calculate_reputation(node) ==
    IF node.total_submissions < MIN_SUBMISSIONS_FOR_REPUTATION THEN 100
    ELSE Min2((node.accurate_submissions * 100) \div node.total_submissions, 100)

update_reputation(node, was_accurate) ==
    LET n1 == [node EXCEPT !.total_submissions = @ + 1,
                           !.accurate_submissions =
                               IF was_accurate THEN @ + 1 ELSE @]
    IN  [n1 EXCEPT !.reputation_score = calculate_reputation(n1)]

is_reputation_stale(node, t) ==
    saturating_sub(t, node.last_submission_time) > REPUTATION_DECAY_TIME

is_eligible_no_stake_check(node, t) ==
    /\ node.is_active
    /\ node.reputation_score >= MIN_REPUTATION_SCORE
    /\ ~is_reputation_stale(node, t)

is_eligible(node, t) ==
    /\ node.is_active
    /\ node.stake_amount >= MIN_STAKE_AMOUNT
    /\ node.reputation_score >= MIN_REPUTATION_SCORE
    /\ ~is_reputation_stale(node, t)

can_submit(rate_limit, t) ==
    IF saturating_sub(t, rate_limit.window_start) >= RATE_LIMIT_WINDOW THEN TRUE
    ELSE rate_limit.submission_count < MAX_SUBMISSIONS_PER_HOUR

\* slash_stake reducing the stake only.
slash_stake_keeps_active(node, slash_amount) ==
    [node EXCEPT !.stake_amount = saturating_sub(@, slash_amount)]

slash_stake(node, slash_amount) ==
    LET n1 == [node EXCEPT !.stake_amount = saturating_sub(@, slash_amount)]
    IN  IF n1.stake_amount < MIN_STAKE_AMOUNT
        THEN [n1 EXCEPT !.is_active = FALSE]
        ELSE n1

\* ----------------------------------------------------------- RateLimitInfo
RateLimitInfo_new(node_address, t) ==
    [ node_address     |-> node_address,
      submission_count |-> 0,
      window_start     |-> t,
      last_submission  |-> 0 ]

\* record_submission without the restart of an expired window.
record_submission_no_window_reset(rate_limit, t) ==
    IF rate_limit.submission_count >= MAX_SUBMISSIONS_PER_HOUR
    THEN [accepted |-> FALSE, info |-> rate_limit]
    ELSE [accepted |-> TRUE,
          info |-> [rate_limit EXCEPT !.submission_count = @ + 1,
                                      !.last_submission = t]]

\* Returns [accepted, info]: the bool the method returns and self afterwards.
\* record_submission accepting every submission without counting it.
record_submission_counts_nothing(rate_limit, t) ==
    [accepted |-> TRUE, info |-> [rate_limit EXCEPT !.last_submission = t]]

record_submission(rate_limit, t) ==
    LET r1 == IF saturating_sub(t, rate_limit.window_start) >= RATE_LIMIT_WINDOW
              THEN [rate_limit EXCEPT !.window_start = t, !.submission_count = 0]
              ELSE rate_limit
    IN  IF r1.submission_count >= MAX_SUBMISSIONS_PER_HOUR
        THEN [accepted |-> FALSE, info |-> r1]
        ELSE [accepted |-> TRUE,
              info |-> [r1 EXCEPT !.submission_count = @ + 1,
                                  !.last_submission = t]]

\* ------------------------------------------------------------- NodeManager
\* Returns [result, nodes, rate_limits]: the Result and the two &mut maps.
register_node_stake_first(nodes, rate_limits, registration, t) ==
    IF registration.stake_amount < MIN_STAKE_AMOUNT
    THEN [result |-> "insufficient_stake", nodes |-> nodes, rate_limits |-> rate_limits]
    ELSE IF registration.node_address \in DOMAIN nodes
    THEN [result |-> "node_already_registered", nodes |-> nodes,
          rate_limits |-> rate_limits]
    ELSE [result |-> "ok",
          nodes |-> MapSet(nodes, registration.node_address,
                           OracleNode_new(registration.node_address,
                                          registration.stake_amount, t)),
          rate_limits |-> MapSet(rate_limits, registration.node_address,
                                 RateLimitInfo_new(registration.node_address, t))]

\* register_node without the lookup of the address in the registry.
register_node_again(nodes, rate_limits, registration, t) ==
    IF registration.stake_amount < MIN_STAKE_AMOUNT
    THEN [result |-> "insufficient_stake", nodes |-> nodes, rate_limits |-> rate_limits]
    ELSE [result |-> "ok",
          nodes |-> MapSet(nodes, registration.node_address,
                           OracleNode_new(registration.node_address,
                                          registration.stake_amount, t)),
          rate_limits |-> MapSet(rate_limits, registration.node_address,
                                 RateLimitInfo_new(registration.node_address, t))]

register_node(nodes, rate_limits, registration, t) ==
    IF registration.node_address \in DOMAIN nodes
    THEN [result |-> "node_already_registered", nodes |-> nodes,
          rate_limits |-> rate_limits]
    ELSE IF registration.stake_amount < MIN_STAKE_AMOUNT
    THEN [result |-> "insufficient_stake", nodes |-> nodes, rate_limits |-> rate_limits]
    ELSE [result |-> "ok",
          nodes |-> MapSet(nodes, registration.node_address,
                           OracleNode_new(registration.node_address,
                                          registration.stake_amount, t)),
          rate_limits |-> MapSet(rate_limits, registration.node_address,
                                 RateLimitInfo_new(registration.node_address, t))]

\* Returns [result, nodes].
deactivate_node_resets_reputation(nodes, node_address) ==
    IF node_address \in DOMAIN nodes
    THEN [result |-> "ok",
          nodes |-> MapSet(nodes, node_address,
                           [nodes[node_address] EXCEPT !.is_active = FALSE,
                                                       !.reputation_score = 0])]
    ELSE [result |-> "node_not_found", nodes |-> nodes]

deactivate_node(nodes, node_address) ==
    IF node_address \in DOMAIN nodes
    THEN [result |-> "ok",
          nodes |-> MapSet(nodes, node_address,
                           [nodes[node_address] EXCEPT !.is_active = FALSE])]
    ELSE [result |-> "node_not_found", nodes |-> nodes]

\* ------------------------------------------------- PriceData / AggregatedPrice
PriceData_new(asset_symbol, price, oracle_node, confidence, t) ==
    [ asset_symbol |-> asset_symbol,
      price        |-> price,
      timestamp    |-> t,
      oracle_node  |-> oracle_node,
      confidence   |-> confidence ]

is_stale(price_data, t) ==
    saturating_sub(t, price_data.timestamp) > PRICE_STALENESS_THRESHOLD

is_valid(price_data) ==
    price_data.price > 0 /\ price_data.confidence >= MIN_CONFIDENCE_LEVEL

AggregatedPrice_new(asset_symbol, price, num_sources, confidence, deviation, t) ==
    [ asset_symbol |-> asset_symbol,
      price        |-> price,
      timestamp    |-> t,
      num_sources  |-> num_sources,
      confidence   |-> confidence,
      deviation    |-> deviation ]

is_reliable(p) ==
    /\ p.num_sources >= 3
    /\ p.confidence >= MIN_CONFIDENCE_LEVEL
    /\ p.deviation <= MAX_PRICE_DEVIATION

\* -------------------------------------------------------- ValidationEngine
\* validate_price_data without the check for a zero price.
validate_price_data_no_zero_check(request) ==
    IF request.price > MAX_PRICE THEN "price_too_high"
    ELSE IF request.price < MIN_PRICE THEN "price_too_low"
    ELSE IF request.asset_symbol = "" THEN "invalid_asset_symbol"
    ELSE "ok"

validate_price_data(request) ==
    IF request.price = 0 THEN "invalid_price_zero"
    ELSE IF request.price > MAX_PRICE THEN "price_too_high"
    ELSE IF request.price < MIN_PRICE THEN "price_too_low"
    ELSE IF request.asset_symbol = "" THEN "invalid_asset_symbol"
    ELSE "ok"

validate_timestamp(timestamp, t) ==
    IF saturating_sub(t, timestamp) > PRICE_STALENESS_THRESHOLD THEN "timestamp_too_old"
    ELSE IF timestamp > t + FUTURE_TOLERANCE THEN "timestamp_in_future"
    ELSE "ok"

validate_signature(request) ==
    IF request.signature = "" THEN "missing_signature"
    ELSE IF Len(request.signature) < expected_signature_length
    THEN "invalid_signature_format"
    ELSE "ok"

\* validate_price_update checking the price data before the submitter.
validate_price_update_price_first(request, oracle_nodes, rate_limits, submitter, t) ==
    IF validate_price_data(request) # "ok" THEN validate_price_data(request)
    ELSE IF submitter \notin DOMAIN oracle_nodes THEN "unregistered_node"
    ELSE IF ~is_eligible(oracle_nodes[submitter], t) THEN "node_not_eligible"
    ELSE IF submitter \in DOMAIN rate_limits /\ ~can_submit(rate_limits[submitter], t)
    THEN "rate_limit_exceeded"
    ELSE IF validate_timestamp(request.timestamp, t) # "ok"
    THEN validate_timestamp(request.timestamp, t)
    ELSE validate_signature(request)

validate_price_update(request, oracle_nodes, rate_limits, submitter, t) ==
    IF submitter \notin DOMAIN oracle_nodes THEN "unregistered_node"
    ELSE IF ~is_eligible(oracle_nodes[submitter], t) THEN "node_not_eligible"
    ELSE IF submitter \in DOMAIN rate_limits /\ ~can_submit(rate_limits[submitter], t)
    THEN "rate_limit_exceeded"
    ELSE IF validate_price_data(request) # "ok" THEN validate_price_data(request)
    ELSE IF validate_timestamp(request.timestamp, t) # "ok"
    THEN validate_timestamp(request.timestamp, t)
    ELSE validate_signature(request)

\* history.iter().rev(): rev is the buffer most-recent-first; the loop
\* breaks at the first entry older than RECENT_THRESHOLD, so it visits the
\* entries before that one, and pushes the price of each valid one.
recent_valid_prices_from(rev, t) ==
    LET older == {i \in 1..Len(rev) :
                     saturating_sub(t, rev[i].timestamp) > RECENT_THRESHOLD}
        visited == IF older = {} THEN rev
                   ELSE SubSeq(rev, 1, (CHOOSE i \in older :
                                            \A j \in older : i <= j) - 1)
        valid == SelectSeq(visited, is_valid)
    IN  [i \in 1..Len(valid) |-> valid[i].price]

get_recent_valid_prices(history, t) == recent_valid_prices_from(Reverse(history), t)

confidence_tier(deviation_percentage) ==
    IF deviation_percentage <= 1 THEN 95
    ELSE IF deviation_percentage <= 3 THEN 90
    ELSE IF deviation_percentage <= 5 THEN 85
    ELSE IF deviation_percentage <= 8 THEN 80
    ELSE IF deviation_percentage <= 12 THEN 75
    ELSE IF deviation_percentage <= 18 THEN 70
    ELSE IF deviation_percentage <= 25 THEN 65
    ELSE IF deviation_percentage <= 35 THEN 60
    ELSE IF deviation_percentage <= 50 THEN 55
    ELSE 50

\* ((deviation * 100) / avg_price) as u32: the low 32 bits of the u64
\* quotient, as << its high 16 bits, its low 16 bits >>. The quotient is
\* q * 100 + (r * 100) / avg_price for deviation = q * avg_price + r.
deviation_percentage_as_u32(deviation, avg_price) ==
    LET q == deviation \div avg_price
        r == deviation % avg_price
        low == (q % 65536) * 100 + (r * 100) \div avg_price
        high == (q \div 65536) * 100 + low \div 65536
    IN  << high % 65536, low % 65536 >>

\* The match on deviation_percentage: every value with a high half is
\* above 50.
confidence_of(percentage) ==
    IF percentage[1] = 0 THEN confidence_tier(percentage[2]) ELSE 50

calculate_historical_confidence(recent_prices, new_price) ==
    IF recent_prices = << >> THEN 50
    ELSE LET avg_price == SeqSum(recent_prices) \div Len(recent_prices)
             deviation == IF new_price > avg_price THEN new_price - avg_price
                          ELSE avg_price - new_price
         IN  IF avg_price = 0 THEN 0
             ELSE confidence_of(deviation_percentage_as_u32(deviation, avg_price))

\* The caller passes the value stored under DataKey::PriceData(asset), the
\* asset's submission buffer (declared as a Map<Symbol, Vec<PriceData>> in the
\* signature); history is that buffer, empty when the key is absent.
validate_against_historical_data(new_price, history, t) ==
    IF history = << >> THEN 50
    ELSE LET recent_prices == get_recent_valid_prices(history, t)
         IN  IF recent_prices = << >> THEN 50
             ELSE calculate_historical_confidence(recent_prices, new_price)

\* --------------------------------------------------------- PriceAggregator
\* Median of an ascending sequence of numbers, as both medians of the file
\* compute it (floor of the mean of the two middle elements when even).
median_of_sorted(prices) ==
    IF Len(prices) % 2 = 0
    THEN (prices[Len(prices) \div 2] + prices[Len(prices) \div 2 + 1]) \div 2
    ELSE prices[Len(prices) \div 2 + 1]

\* remove_outliers removing nothing.
remove_outliers_keeps_all(submissions) == submissions

remove_outliers(submissions) ==
    IF Len(submissions) < 3 THEN submissions
    ELSE LET sorted == SortByPrice(submissions)
             prices == [i \in 1..Len(sorted) |-> sorted[i].price]
             median == median_of_sorted(prices)
             max_deviation == (median * MAX_PRICE_DEVIATION) \div 100
             within(s) == (IF s.price > median THEN s.price - median
                           ELSE median - s.price) <= max_deviation
         IN  SelectSeq(submissions, within)

filter_valid_submissions(submissions, oracle_nodes, t) ==
    LET keep(s) == /\ is_valid(s)
                   /\ ~is_stale(s, t)
                   /\ s.oracle_node \in DOMAIN oracle_nodes
                   /\ is_eligible(oracle_nodes[s.oracle_node], t)
    IN  remove_outliers(SelectSeq(submissions, keep))

calculate_node_weight(node, submission) ==
    LET base_weight == 1
        reputation_multiplier == Max2(node.reputation_score, 1) \div 10
        confidence_multiplier == Max2(submission.confidence, 1) \div 20
        stake_multiplier == Min2(Max2(node.stake_amount \div 1000, 1), 5)
    IN  base_weight * reputation_multiplier * confidence_multiplier * stake_multiplier

\* The submissions whose node is in the registry, each with its weight.
weighted_entries(submissions, oracle_nodes) ==
    LET known(s) == s.oracle_node \in DOMAIN oracle_nodes
        ks == SelectSeq(submissions, known)
    IN  [i \in 1..Len(ks) |->
            [price |-> ks[i].price,
             confidence |-> ks[i].confidence,
             weight |-> calculate_node_weight(oracle_nodes[ks[i].oracle_node], ks[i])]]

RECURSIVE total_weight(_)
total_weight(entries) ==
    IF entries = << >> THEN 0 ELSE Head(entries).weight + total_weight(Tail(entries))

\* Element k (1-based) of the ascending list in which every entry's price
\* stands weight times: weighted_prices after sort(), without writing the
\* copies out.
RECURSIVE expanded_at(_, _)
expanded_at(sorted_entries, k) ==
    IF k <= Head(sorted_entries).weight THEN Head(sorted_entries).price
    ELSE expanded_at(Tail(sorted_entries), k - Head(sorted_entries).weight)

\* calculate_weighted_median adding the two middle prices of an even list
\* without halving the sum.
calculate_weighted_median_sums_middle(submissions, oracle_nodes) ==
    IF submissions = << >> THEN [result |-> "no_submissions", price |-> 0]
    ELSE LET entries == weighted_entries(submissions, oracle_nodes)
             n == total_weight(entries)
             sorted == SortByPrice(entries)
         IN  IF n = 0 THEN [result |-> "no_weighted_data", price |-> 0]
             ELSE IF n % 2 = 0
             THEN [result |-> "ok",
                   price |-> expanded_at(sorted, n \div 2)
                             + expanded_at(sorted, n \div 2 + 1)]
             ELSE [result |-> "ok", price |-> expanded_at(sorted, n \div 2 + 1)]

\* Returns [result, price].
calculate_weighted_median(submissions, oracle_nodes) ==
    IF submissions = << >> THEN [result |-> "no_submissions", price |-> 0]
    ELSE LET entries == weighted_entries(submissions, oracle_nodes)
             n == total_weight(entries)
             sorted == SortByPrice(entries)
         IN  IF n = 0 THEN [result |-> "no_weighted_data", price |-> 0]
             ELSE IF n % 2 = 0
             THEN [result |-> "ok",
                   price |-> (expanded_at(sorted, n \div 2)
                              + expanded_at(sorted, n \div 2 + 1)) \div 2]
             ELSE [result |-> "ok", price |-> expanded_at(sorted, n \div 2 + 1)]

RECURSIVE total_confidence(_)
total_confidence(entries) ==
    IF entries = << >> THEN 0
    ELSE Head(entries).confidence * Head(entries).weight + total_confidence(Tail(entries))

calculate_confidence(submissions, oracle_nodes) ==
    IF submissions = << >> THEN 0
    ELSE LET entries == weighted_entries(submissions, oracle_nodes)
             tw == total_weight(entries)
             source_bonus == IF Len(submissions) = 1 THEN 0
                             ELSE IF Len(submissions) = 2 THEN 5
                             ELSE IF Len(submissions) <= 5 THEN 10
                             ELSE 15
         IN  IF tw = 0 THEN 0
             ELSE Min2(total_confidence(entries) \div tw + source_bonus, 100)

RECURSIVE max_deviation_percentage(_, _)
max_deviation_percentage(prices, avg_price) ==
    IF prices = << >> THEN 0
    ELSE LET deviation == IF Head(prices) > avg_price THEN Head(prices) - avg_price
                          ELSE avg_price - Head(prices)
         IN  Max2((deviation * 100) \div avg_price,
                  max_deviation_percentage(Tail(prices), avg_price))

\* calculate_price_deviation measuring from the first price instead of the
\* average.
calculate_price_deviation_from_first(submissions) ==
    IF Len(submissions) < 2 THEN 0
    ELSE LET prices == [i \in 1..Len(submissions) |-> submissions[i].price]
         IN  IF prices[1] = 0 THEN 100
             ELSE Min2(max_deviation_percentage(prices, prices[1]), 100)

calculate_price_deviation(submissions) ==
    IF Len(submissions) < 2 THEN 0
    ELSE LET prices == [i \in 1..Len(submissions) |-> submissions[i].price]
             avg_price == SeqSum(prices) \div Len(prices)
         IN  IF avg_price = 0 THEN 100
             ELSE Min2(max_deviation_percentage(prices, avg_price), 100)

\* aggregate_prices returns [result, value]: value is the AggregatedPrice
\* when result = "ok".  Its last step, the reliability check on the result:
\* aggregate_prices_checked returning the result whether reliable or not.
aggregate_prices_checked_accepts_all(result) ==
    [result |-> "ok", value |-> << result >>]

aggregate_prices_checked(result) ==
    IF is_reliable(result) THEN [result |-> "ok", value |-> << result >>]
    ELSE [result |-> "unreliable_price", value |-> << >>]

\* its steps after the weighted median wm of the valid submissions:
aggregate_prices_weighted(asset_symbol, valid_submissions, wm, oracle_nodes, t) ==
    IF wm.result # "ok" THEN [result |-> wm.result, value |-> << >>]
    ELSE aggregate_prices_checked(
             AggregatedPrice_new(asset_symbol, wm.price, Len(valid_submissions),
                                 calculate_confidence(valid_submissions, oracle_nodes),
                                 calculate_price_deviation(valid_submissions), t))

\* its steps after filter_valid_submissions:
aggregate_prices_filtered(asset_symbol, valid_submissions, oracle_nodes, t) ==
    IF valid_submissions = << >>
    THEN [result |-> "no_valid_submissions", value |-> << >>]
    ELSE aggregate_prices_weighted(
             asset_symbol, valid_submissions,
             calculate_weighted_median(valid_submissions, oracle_nodes),
             oracle_nodes, t)

aggregate_prices(asset_symbol, price_submissions, oracle_nodes, t) ==
    IF price_submissions = << >> THEN [result |-> "no_price_data", value |-> << >>]
    ELSE aggregate_prices_filtered(
             asset_symbol,
             filter_valid_submissions(price_submissions, oracle_nodes, t),
             oracle_nodes, t)

is_price_stale(price, t) ==
    saturating_sub(t, price.timestamp) > fallback_staleness_threshold

\* history.iter().rev(): the first reliable, non-stale entry from the back.
RECURSIVE first_fallback(_, _)
first_fallback(rev, t) ==
    IF rev = << >> THEN [result |-> "no_fallback_available", value |-> << >>]
    ELSE IF is_reliable(Head(rev)) /\ ~is_price_stale(Head(rev), t)
    THEN [result |-> "ok", value |-> << Head(rev).price >>]
    ELSE first_fallback(Tail(rev), t)

\* price_history is the Map<Symbol, Vec<AggregatedPrice>> the caller read.
PriceAggregator_get_fallback_price(asset_symbol, price_history, t) ==
    IF asset_symbol \in DOMAIN price_history
    THEN first_fallback(Reverse(price_history[asset_symbol]), t)
    ELSE [result |-> "no_fallback_available", value |-> << >>]

update_oracle_accuracy(oracle_nodes, submission, aggregated_price) ==
    IF submission.oracle_node \in DOMAIN oracle_nodes
    THEN LET price_diff == IF submission.price > aggregated_price
                           THEN submission.price - aggregated_price
                           ELSE aggregated_price - submission.price
             deviation_percentage == IF aggregated_price > 0
                                     THEN (price_diff * 100) \div aggregated_price
                                     ELSE 100
             was_accurate == deviation_percentage <= 5
         IN  MapSet(oracle_nodes, submission.oracle_node,
                    update_reputation(oracle_nodes[submission.oracle_node],
                                      was_accurate))
    ELSE oracle_nodes

\* ------------------------------------------------------------------- bounds
\* Most ledger-clock advances in one behaviour.
MaxTicks == 1
\* The same, in the three-node scenario.
ScenarioTicks == 2
\* The same, at the object level.
HarnessTicks == 1

\* Most ledger advances of a run of the rate-limit harness.
RateLimitTicks == 1
\* Most submissions one asset's buffer is let grow to in the aggregation
\* harness.
AggregationBuffer == 4
\* Most submissions one asset's buffer is let grow to before submit_price
\* is no longer called for it.
MaxBuffer == 3

\* ------------------------------------------------------------------- inputs
Address == {"admin", "oracle1", "oracle2"}

NodeAddress == {"oracle1", "oracle2"}

ThreeNodes == {"oracle1", "oracle2", "oracle3"}

\* The addresses initialize is called with.
AdminCandidates == {"admin", "oracle1"}

Assets == {"XLM"}

\* Stakes in whole XLM: below and above MIN_STAKE_AMOUNT.
Stakes == {500, 2000}

ValidPrices == {1000000}

\* Who submits which price in test_price_aggregation_with_multiple_oracles.
ScenarioSubmissions ==
    {<< "oracle1", 1000000 >>, << "oracle2", 1010000 >>, << "oracle3", 1005000 >>}

\* A signature of 64 characters, and the 59-character one of test.rs.
Sig64 == "0123456789abcdef0123456789abcdef0123456789abcdef0123456789abcdef"

SigTest == "test_signature_64_chars_long_placeholder_for_real_signature"

\* Ledger-clock steps: past the staleness threshold (and within the
\* fallback threshold), and the reputation decay time.
TickDeltas == {301, 604800}

GoodRequest(asset, price, t) ==
    [asset_symbol |-> asset, price |-> price, timestamp |-> t, signature |-> Sig64]

\* The well-formed requests at ledger time t, and one request failing each
\* check of validate_price_update.
Requests(t) ==
    {GoodRequest(a, p, t) : a \in Assets, p \in ValidPrices}
    \cup {[GoodRequest("XLM", 1000000, t) EXCEPT !.price = 0],
          [GoodRequest("XLM", 1000000, t) EXCEPT !.price = MAX_PRICE + 1],
          [GoodRequest("XLM", 1000000, t) EXCEPT !.asset_symbol = ""],
          [GoodRequest("XLM", 1000000, t) EXCEPT !.timestamp = t + FUTURE_TOLERANCE + 1],
          [GoodRequest("XLM", 1000000, t) EXCEPT !.signature = ""],
          [GoodRequest("XLM", 1000000, t) EXCEPT !.signature = SigTest]}
    \cup (IF t > PRICE_STALENESS_THRESHOLD
          THEN {[GoodRequest("XLM", 1000000, t) EXCEPT
                    !.timestamp = t - PRICE_STALENESS_THRESHOLD - 1]}
          ELSE {})

HistoryLimits == {1, 10}

\* -------------------------------------------------------------------- state
VARIABLES
    config,             \* DataKey::Admin: << >> or << ContractConfig >>
    oracle_nodes,       \* DataKey::OracleNodes: Address -> OracleNode
    rate_limits,        \* DataKey::RateLimits: Address -> RateLimitInfo
    price_data,         \* DataKey::PriceData(asset): the submission buffer
    aggregated_prices,  \* DataKey::AggregatedPrices(asset), a map over the set keys
    price_history,      \* DataKey::PriceHistory(asset)
    supported_assets,   \* DataKey::SupportedAssets
    now,                \* env.ledger().timestamp()
    ticks,              \* clock advances so far
    last,               \* the latest call: entry point, arguments, result
    \* automated-payment-contract
    payment_admin,      \* ADMIN_KEY: << >> or << Address >>
    schedule_counter,   \* SCHEDULE_COUNTER
    schedules,          \* StorageKey::Schedule(id): id -> PaymentSchedule
    user_schedules,     \* StorageKey::UserSchedules(user): Address -> ids
    token_balances,     \* the token contract's balances: Address -> amount
    deposited,          \* id -> tokens the payer has transferred in for it
    refunded,           \* id -> tokens transferred back to the payer for it
    \* security-limits
    user_limits,          \* (user,): Address -> UserLimits
    transaction_attempts, \* temporary (user, timestamp) -> TransactionAttempt
    security_metrics,     \* user: Address -> SecurityMetrics
    alerts,               \* (user, alert_id) -> Alert
    alert_counter,        \* "alert_counter": << >> or << u64 >>
    alert_rules,          \* rule_id -> AlertRule
    whitelist,            \* ("whitelist", address) -> time of the addition
    blacklist,            \* ("blacklist", address) -> time of the addition
    emergency_stop_key    \* "emergency_stop": << >> or << bool >>

storage == << config, oracle_nodes, rate_limits, price_data, aggregated_prices,
              price_history, supported_assets >>

\* The state of the payment contract and of the token it moves.
payment_vars == << payment_admin, schedule_counter, schedules, user_schedules,
                   token_balances, deposited, refunded >>

\* The persistent and temporary storage of the security-limits contract.
security_vars == << user_limits, transaction_attempts, security_metrics, alerts,
                    alert_counter, alert_rules, whitelist, blacklist,
                    emergency_stop_key >>

vars == << config, oracle_nodes, rate_limits, price_data, aggregated_prices,
           price_history, supported_assets, now, ticks, last, payment_vars,
           security_vars >>

\* The record of a call: the entry point, its caller ("" when it takes
\* none), the asset or node it is about, the Result's variant or error
\* symbol, and the Ok value if there is one.
Call(op, caller, subject, result, value) ==
    [op |-> op, caller |-> caller, subject |-> subject, result |-> result,
     value |-> value]

\* Tokens minted to the payer by the tests' setup.
INITIAL_BALANCE == 10000

\* The payment contract as registered, before initialize, and the token
\* after the mint to the payer.
InitPayments ==
    /\ payment_admin = << >>
    /\ schedule_counter = 0
    /\ schedules = << >>
    /\ user_schedules = [a \in {"payer", "recipient"} |-> << >>]
    /\ token_balances = [a \in {"payer", "recipient", "contract"} |->
                            IF a = "payer" THEN INITIAL_BALANCE ELSE 0]
    /\ deposited = << >>
    /\ refunded = << >>

\* The security-limits contract as registered: nothing stored.
InitSecurity ==
    /\ user_limits = EmptyMap
    /\ transaction_attempts = EmptyMap
    /\ security_metrics = EmptyMap
    /\ alerts = EmptyMap
    /\ alert_counter = << >>
    /\ alert_rules = EmptyMap
    /\ whitelist = EmptyMap
    /\ blacklist = EmptyMap
    /\ emergency_stop_key = << >>

Init ==
    /\ InitPayments
    /\ InitSecurity
    /\ config = << >>
    /\ oracle_nodes = EmptyMap
    /\ rate_limits = EmptyMap
    /\ price_data = [a \in Assets |-> << >>]
    /\ aggregated_prices = EmptyMap
    /\ price_history = [a \in Assets |-> << >>]
    /\ supported_assets = << >>
    /\ now = 0
    /\ ticks = 0
    /\ last = [op |-> "none", caller |-> "", subject |-> "", result |-> "",
               value |-> << >>]

\* ------------------------------------------------------- internal helpers
check_admin_any_caller(caller) ==
    IF config = << >> THEN "not_initialized" ELSE "ok"

check_admin(caller) ==
    IF config = << >> THEN "not_initialized"
    ELSE IF caller # config[1].admin THEN "unauthorized"
    ELSE "ok"

check_emergency_stop_ignored ==
    IF config = << >> THEN "not_initialized" ELSE "ok"

check_emergency_stop ==
    IF config = << >> THEN "not_initialized"
    ELSE IF config[1].emergency_stop THEN "emergency_stop_active"
    ELSE "ok"

\* filter_recent_submissions keeping every submission.
filter_recent_submissions_keeps_all(submissions, t) == submissions

filter_recent_submissions(submissions, t) ==
    LET recent(s) == saturating_sub(t, s.timestamp) <= PRICE_STALENESS_THRESHOLD
    IN  SelectSeq(submissions, recent)

cleanup_old_price_data(submissions, t) ==
    LET fresh(s) == saturating_sub(t, s.timestamp) <= CLEANUP_THRESHOLD
    IN  SelectSeq(submissions, fresh)

\* update_price_history keeping the oldest MAX_HISTORY_ENTRIES entries.
update_price_history_keeps_oldest(history, aggregated_price) ==
    LET h == Append(history, aggregated_price)
    IN  IF Len(h) > MAX_HISTORY_ENTRIES
        THEN SubSeq(h, 1, MAX_HISTORY_ENTRIES)
        ELSE h

\* update_price_history appending to an empty history only.
update_price_history_first_only(history, aggregated_price) ==
    IF history = << >> THEN << aggregated_price >> ELSE history

update_price_history(history, aggregated_price) ==
    LET h == Append(history, aggregated_price)
    IN  IF Len(h) > MAX_HISTORY_ENTRIES
        THEN SubSeq(h, Len(h) - MAX_HISTORY_ENTRIES + 1, Len(h))
        ELSE h

RECURSIVE update_accuracies(_, _, _)
update_accuracies(nodes, submissions, aggregated_price) ==
    IF submissions = << >> THEN nodes
    ELSE update_accuracies(update_oracle_accuracy(nodes, Head(submissions),
                                                  aggregated_price),
                           Tail(submissions), aggregated_price)

\* try_aggregate_prices returns the Result and the three storage entries it
\* may write.  What it returns when it writes nothing:
try_aggregate_prices_unchanged(result) ==
    [result |-> result,
     aggregated_prices |-> aggregated_prices,
     price_history |-> price_history,
     oracle_nodes |-> oracle_nodes]

\* try_aggregate_prices_aggregated removing the asset's stored price when
\* aggregate_prices fails.
try_aggregate_prices_aggregated_drops_price(asset_symbol, recent_submissions, agg) ==
    IF agg.result = "ok"
    THEN [result |-> "ok",
          aggregated_prices |-> MapSet(aggregated_prices, asset_symbol, agg.value[1]),
          price_history |->
              [price_history EXCEPT ![asset_symbol] =
                  update_price_history(@, agg.value[1])],
          oracle_nodes |-> update_accuracies(oracle_nodes, recent_submissions,
                                             agg.value[1].price)]
    ELSE [try_aggregate_prices_unchanged(agg.result) EXCEPT
             !.aggregated_prices =
                 [a \in DOMAIN aggregated_prices \ {asset_symbol} |->
                     aggregated_prices[a]]]

\* its steps after aggregate_prices returned agg:
try_aggregate_prices_aggregated(asset_symbol, recent_submissions, agg) ==
    IF agg.result = "ok"
    THEN [result |-> "ok",
          aggregated_prices |-> MapSet(aggregated_prices, asset_symbol, agg.value[1]),
          price_history |->
              [price_history EXCEPT ![asset_symbol] =
                  update_price_history(@, agg.value[1])],
          oracle_nodes |-> update_accuracies(oracle_nodes, recent_submissions,
                                             agg.value[1].price)]
    ELSE try_aggregate_prices_unchanged(agg.result)

\* its steps after filter_recent_submissions:
try_aggregate_prices_recent(asset_symbol, recent_submissions) ==
    IF config = << >> THEN try_aggregate_prices_unchanged("not_initialized")
    ELSE IF Len(recent_submissions) < config[1].min_oracle_nodes
    THEN try_aggregate_prices_unchanged("ok")
    ELSE try_aggregate_prices_aggregated(
             asset_symbol, recent_submissions,
             aggregate_prices(asset_symbol, recent_submissions, oracle_nodes, now))

\* try_aggregate_prices on the buffer just stored.
try_aggregate_prices(asset_symbol, price_submissions) ==
    try_aggregate_prices_recent(asset_symbol,
                                filter_recent_submissions(price_submissions, now))

\* ------------------------------------------------------------ entry points
\* The ContractConfig initialize stores.
initial_config(admin) ==
    [admin |-> admin, emergency_stop |-> FALSE,
     min_oracle_nodes |-> min_oracle_nodes, price_update_interval |-> 60]

initialize_again(admin) ==
    /\ config' = << initial_config(admin) >>
    /\ oracle_nodes' = EmptyMap
    /\ rate_limits' = EmptyMap
    /\ supported_assets' = << >>
    /\ last' = Call("initialize", admin, "", "ok", << >>)
    /\ UNCHANGED << price_data, aggregated_prices, price_history, now, ticks >>

initialize(admin) ==
    /\ IF config # << >>
       THEN /\ last' = Call("initialize", admin, "", "already_initialized", << >>)
            /\ UNCHANGED storage
       ELSE /\ config' = << initial_config(admin) >>
            /\ oracle_nodes' = EmptyMap
            /\ rate_limits' = EmptyMap
            /\ supported_assets' = << >>
            /\ last' = Call("initialize", admin, "", "ok", << >>)
            /\ UNCHANGED << price_data, aggregated_prices, price_history >>
    /\ UNCHANGED << now, ticks >>

register_oracle_node(caller, registration) ==
    LET gate == check_emergency_stop
        r == register_node(oracle_nodes, rate_limits, registration, now)
    IN  /\ IF gate # "ok"
           THEN /\ last' = Call("register_oracle_node", caller,
                                registration.node_address, gate, << >>)
                /\ UNCHANGED << oracle_nodes, rate_limits >>
           ELSE /\ oracle_nodes' = r.nodes
                /\ rate_limits' = r.rate_limits
                /\ last' = Call("register_oracle_node", caller,
                                registration.node_address, r.result, << >>)
        /\ UNCHANGED << config, price_data, aggregated_prices, price_history,
                        supported_assets, now, ticks >>

\* What submit_price returns and leaves in storage: [result, rate_limits,
\* price_data, aggregated_prices, price_history, oracle_nodes].  A call
\* that returns before any write:
submit_price_rejected(result) ==
    [result |-> result,
     rate_limits |-> rate_limits,
     price_data |-> price_data,
     aggregated_prices |-> aggregated_prices,
     price_history |-> price_history,
     oracle_nodes |-> oracle_nodes]

\* its steps after try_aggregate_prices returned agg on the stored buffer:
submit_price_aggregated(asset, limits, price_submissions, agg) ==
    [result |-> agg.result,
     rate_limits |-> limits,
     price_data |-> [price_data EXCEPT ![asset] = price_submissions],
     aggregated_prices |-> agg.aggregated_prices,
     price_history |-> agg.price_history,
     oracle_nodes |-> agg.oracle_nodes]

\* its steps after the buffer price_submissions was stored:
submit_price_stored(asset, limits, price_submissions) ==
    submit_price_aggregated(asset, limits, price_submissions,
                            try_aggregate_prices(asset, price_submissions))

\* its steps after the rate limit was recorded: the confidence from the
\* asset's buffer, the new PriceData pushed, cleanup_old_price_data.
submit_price_recorded(caller, price_update, limits) ==
    submit_price_stored(
        price_update.asset_symbol, limits,
        cleanup_old_price_data(
            Append(price_data[price_update.asset_symbol],
                   PriceData_new(price_update.asset_symbol, price_update.price, caller,
                                 validate_against_historical_data(
                                     price_update.price,
                                     price_data[price_update.asset_symbol], now),
                                 now)),
            now))

\* its rate-limit step, rec being record_submission on the caller's record:
submit_price_limited(caller, price_update, rec) ==
    IF ~rec.accepted THEN submit_price_rejected("rate_limit_exceeded")
    ELSE submit_price_recorded(caller, price_update,
                               MapSet(rate_limits, caller, rec.info))

\* submit_price_validated with the caller's record updated before the result
\* of validate_price_update is looked at.
submit_price_validated_records_first(caller, price_update, valid) ==
    IF valid # "ok"
    THEN [submit_price_rejected(valid) EXCEPT
             !.rate_limits =
                 IF caller \in DOMAIN rate_limits
                 THEN MapSet(rate_limits, caller,
                             record_submission(rate_limits[caller], now).info)
                 ELSE rate_limits]
    ELSE IF caller \in DOMAIN rate_limits
    THEN submit_price_limited(caller, price_update,
                              record_submission(rate_limits[caller], now))
    ELSE submit_price_recorded(caller, price_update, rate_limits)

\* its steps after validate_price_update returned valid:
submit_price_validated(caller, price_update, valid) ==
    IF valid # "ok" THEN submit_price_rejected(valid)
    ELSE IF caller \in DOMAIN rate_limits
    THEN submit_price_limited(caller, price_update,
                              record_submission(rate_limits[caller], now))
    ELSE submit_price_recorded(caller, price_update, rate_limits)

submit_price_outcome(caller, price_update) ==
    IF check_emergency_stop # "ok" THEN submit_price_rejected(check_emergency_stop)
    ELSE submit_price_validated(caller, price_update,
                                validate_price_update(price_update, oracle_nodes,
                                                      rate_limits, caller, now))

\* The writes of a submit_price call whose outcome is out.
submit_price_returns(caller, asset, out) ==
    /\ rate_limits' = out.rate_limits
    /\ price_data' = out.price_data
    /\ aggregated_prices' = out.aggregated_prices
    /\ price_history' = out.price_history
    /\ oracle_nodes' = out.oracle_nodes
    /\ last' = Call("submit_price", caller, asset, out.result, << >>)
    /\ UNCHANGED << config, supported_assets, now, ticks >>

submit_price(caller, price_update) ==
    submit_price_returns(caller, price_update.asset_symbol,
                         submit_price_outcome(caller, price_update))

\* Returns [result, value].
get_price_outcome_ignores_staleness(asset_symbol) ==
    IF check_emergency_stop # "ok"
    THEN [result |-> check_emergency_stop, value |-> << >>]
    ELSE IF asset_symbol \in DOMAIN aggregated_prices
    THEN IF ~is_reliable(aggregated_prices[asset_symbol])
         THEN [result |-> "unreliable_price", value |-> << >>]
         ELSE [result |-> "ok", value |-> << aggregated_prices[asset_symbol] >>]
    ELSE [result |-> "price_not_available", value |-> << >>]

get_price_outcome(asset_symbol) ==
    IF check_emergency_stop # "ok"
    THEN [result |-> check_emergency_stop, value |-> << >>]
    ELSE IF asset_symbol \in DOMAIN aggregated_prices
    THEN IF ~is_reliable(aggregated_prices[asset_symbol])
         THEN [result |-> "unreliable_price", value |-> << >>]
         ELSE IF saturating_sub(now, aggregated_prices[asset_symbol].timestamp)
                     > PRICE_STALENESS_THRESHOLD
         THEN [result |-> "stale_price", value |-> << >>]
         ELSE [result |-> "ok", value |-> << aggregated_prices[asset_symbol] >>]
    ELSE [result |-> "price_not_available", value |-> << >>]

get_price(asset_symbol) ==
    /\ last' = Call("get_price", "", asset_symbol,
                    get_price_outcome(asset_symbol).result,
                    get_price_outcome(asset_symbol).value)
    /\ UNCHANGED << storage, now, ticks >>

\* The entry point reads DataKey::PriceHistory(asset), which holds the
\* Vec<AggregatedPrice> update_price_history stored, as a
\* Map<Symbol, Vec<AggregatedPrice>>: an absent key gives the empty map; a
\* stored Vec is not a Map and the read panics.
get_fallback_price_outcome(asset_symbol) ==
    IF check_emergency_stop # "ok"
    THEN [result |-> check_emergency_stop, value |-> << >>]
    ELSE IF price_history[asset_symbol] = << >>
    THEN PriceAggregator_get_fallback_price(asset_symbol, EmptyMap, now)
    ELSE [result |-> "panic", value |-> << >>]

get_fallback_price(asset_symbol) ==
    /\ last' = Call("get_fallback_price", "", asset_symbol,
                    get_fallback_price_outcome(asset_symbol).result,
                    get_fallback_price_outcome(asset_symbol).value)
    /\ UNCHANGED << storage, now, ticks >>

add_supported_asset(caller, asset_symbol) ==
    LET auth == check_admin(caller)
        listed == \E i \in 1..Len(supported_assets) : supported_assets[i] = asset_symbol
    IN  /\ supported_assets' = IF auth = "ok" /\ ~listed
                               THEN Append(supported_assets, asset_symbol)
                               ELSE supported_assets
        /\ last' = Call("add_supported_asset", caller, asset_symbol, auth, << >>)
        /\ UNCHANGED << config, oracle_nodes, rate_limits, price_data,
                        aggregated_prices, price_history, now, ticks >>

deactivate_oracle_node(caller, node_address) ==
    LET auth == check_admin(caller)
        r == deactivate_node(oracle_nodes, node_address)
    IN  /\ oracle_nodes' = IF auth = "ok" THEN r.nodes ELSE oracle_nodes
        /\ last' = Call("deactivate_oracle_node", caller, node_address,
                        IF auth = "ok" THEN r.result ELSE auth, << >>)
        /\ UNCHANGED << config, rate_limits, price_data, aggregated_prices,
                        price_history, supported_assets, now, ticks >>

set_emergency_stop(caller, emergency_stop) ==
    LET auth == check_admin(caller)
    IN  /\ config' = IF auth = "ok"
                     THEN << [config[1] EXCEPT !.emergency_stop = emergency_stop] >>
                     ELSE config
        /\ last' = Call("set_emergency_stop", caller, "", auth, << >>)
        /\ UNCHANGED << oracle_nodes, rate_limits, price_data, aggregated_prices,
                        price_history, supported_assets, now, ticks >>

get_oracle_node_info(node_address) ==
    /\ last' = Call("get_oracle_node_info", "", node_address, "ok",
                    IF node_address \in DOMAIN oracle_nodes
                    THEN << oracle_nodes[node_address] >> ELSE << >>)
    /\ UNCHANGED << storage, now, ticks >>

get_supported_assets ==
    /\ last' = Call("get_supported_assets", "", "", "ok", supported_assets)
    /\ UNCHANGED << storage, now, ticks >>

get_price_history(asset_symbol, limit) ==
    LET history == price_history[asset_symbol]
        lim == Min2(limit, MAX_HISTORY_ENTRIES)
        start_index == IF Len(history) > lim THEN Len(history) - lim ELSE 0
    IN  /\ last' = Call("get_price_history", "", asset_symbol, "ok",
                        SubSeq(history, start_index + 1, Len(history)))
        /\ UNCHANGED << storage, now, ticks >>

\* The ledger clock, the host's: non-decreasing.
advance_ledger(delta) ==
    /\ now' = now + delta
    /\ ticks' = ticks + 1
    /\ UNCHANGED << storage, last >>

\* Bounding guards: the clock advances at most max_ticks times, and
\* submit_price is called while every buffer is shorter than MaxBuffer.
MayTick(max_ticks) == ticks < max_ticks

MaySubmit == \A a \in Assets : Len(price_data[a]) < MaxBuffer

Registration(n, s) ==
    [node_address |-> n, stake_amount |-> s, metadata |-> "test_oracle_node"]

Next ==
    \/ UNCHANGED << payment_vars, security_vars >> /\ \E a \in AdminCandidates : initialize(a)
    \/ UNCHANGED << payment_vars, security_vars >> /\ \E n \in NodeAddress, s \in Stakes : register_oracle_node(n, Registration(n, s))
    \/ UNCHANGED << payment_vars, security_vars >> /\ MaySubmit /\ \E c \in Address, r \in Requests(now) : submit_price(c, r)
    \/ UNCHANGED << payment_vars, security_vars >> /\ \E a \in Assets : get_price(a)
    \/ UNCHANGED << payment_vars, security_vars >> /\ \E a \in Assets : get_fallback_price(a)
    \/ UNCHANGED << payment_vars, security_vars >> /\ \E c \in Address, a \in Assets : add_supported_asset(c, a)
    \/ UNCHANGED << payment_vars, security_vars >> /\ \E c \in Address, n \in NodeAddress : deactivate_oracle_node(c, n)
    \/ UNCHANGED << payment_vars, security_vars >> /\ \E c \in Address, b \in BOOLEAN : set_emergency_stop(c, b)
    \/ UNCHANGED << payment_vars, security_vars >> /\ \E n \in NodeAddress : get_oracle_node_info(n)
    \/ UNCHANGED << payment_vars, security_vars >> /\ get_supported_assets
    \/ UNCHANGED << payment_vars, security_vars >> /\ \E a \in Assets, l \in HistoryLimits : get_price_history(a, l)
    \/ UNCHANGED << payment_vars, security_vars >> /\ MayTick(MaxTicks) /\ \E d \in TickDeltas : advance_ledger(d)

Spec == Init /\ [][Next]_vars

\* The scenario of test_price_aggregation_with_multiple_oracles and
\* test_fallback_price: three nodes with sufficient stake, well-formed
\* requests, the two price queries, the clock.
NextScenario ==
    \/ UNCHANGED << payment_vars, security_vars >> /\ \E a \in AdminCandidates : initialize(a)
    \/ UNCHANGED << payment_vars, security_vars >> /\ \E n \in ThreeNodes : register_oracle_node(n, Registration(n, 2000))
    \/ UNCHANGED << payment_vars, security_vars >> /\ MaySubmit /\ \E cp \in ScenarioSubmissions :
           submit_price(cp[1], GoodRequest("XLM", cp[2], now))
    \/ UNCHANGED << payment_vars, security_vars >> /\ \E a \in Assets : get_price(a)
    \/ UNCHANGED << payment_vars, security_vars >> /\ \E a \in Assets : get_fallback_price(a)
    \/ UNCHANGED << payment_vars, security_vars >> /\ MayTick(ScenarioTicks) /\ \E d \in TickDeltas : advance_ledger(d)

SpecScenario == Init /\ [][NextScenario]_vars

\* ------------------------------------------------------------ object level
\* The crate's public types driven directly, as test_oracle_node_eligibility
\* and test_price_data_validation do: nodes built by OracleNode::new with any
\* stake and any record of outcomes, submissions built by PriceData::new
\* with any confidence, and the contract's own steps run on them.

HarnessPrices == {1000000}

HarnessConfidences == {50, 80}

\* << address, stake, << accurate, inaccurate >> >>: the stake and the
\* record of outcomes a node is built with.
HarnessNodes ==
    {<< "oracle1", 2000, << 0, 0 >> >>,
     << "oracle2", 500, << 0, 0 >> >>,
     << "oracle2", 500, << 6, 4 >> >>}

\* One aggregation per asset and ledger time.
MayAggregate(asset) ==
    IF asset \in DOMAIN aggregated_prices
    THEN aggregated_prices[asset].timestamp < now
    ELSE TRUE

RECURSIVE apply_outcomes(_, _, _)
apply_outcomes(node, accurate, inaccurate) ==
    IF accurate > 0
    THEN apply_outcomes(update_reputation(node, TRUE), accurate - 1, inaccurate)
    ELSE IF inaccurate > 0
    THEN apply_outcomes(update_reputation(node, FALSE), accurate, inaccurate - 1)
    ELSE node

\* OracleNode::new, update_reputation for each outcome, and the node and a
\* fresh RateLimitInfo put in the maps.
build_node(n, stake, outcomes) ==
    /\ n \notin DOMAIN oracle_nodes
    /\ oracle_nodes' = MapSet(oracle_nodes, n,
                              apply_outcomes(OracleNode_new(n, stake, now),
                                             outcomes[1], outcomes[2]))
    /\ rate_limits' = MapSet(rate_limits, n, RateLimitInfo_new(n, now))
    /\ UNCHANGED << config, price_data, aggregated_prices, price_history,
                    supported_assets, now, ticks, last >>

\* Calls of record_submission made in a row on a node's fresh record.
HarnessSubmissionCounts == {59}

\* k calls in a row, as k \div 2 calls followed by the rest; a call that is
\* not accepted leaves the record as it was, and so do the calls after it.
RECURSIVE record_submissions(_, _, _)
record_submissions(rate_limit, k, t) ==
    IF k = 0 THEN rate_limit
    ELSE IF k = 1 THEN record_submission(rate_limit, t).info
    ELSE LET half == record_submissions(rate_limit, k \div 2, t)
         IN  IF half.submission_count >= 0
             THEN record_submissions(half, k - k \div 2, t)
             ELSE half

\* RateLimitInfo::record_submission, k times, on the node's record.
record_node_submissions(n, k) ==
    /\ rate_limits' = MapSet(rate_limits, n, record_submissions(rate_limits[n], k, now))
    /\ UNCHANGED << config, oracle_nodes, price_data, aggregated_prices,
                    price_history, supported_assets, now, ticks, last >>

\* PriceData::new appended to the asset's buffer.
push_price_data(n, asset, price, confidence) ==
    /\ price_data' = [price_data EXCEPT ![asset] =
                         Append(@, PriceData_new(asset, price, n, confidence, now))]
    /\ UNCHANGED << config, oracle_nodes, rate_limits, aggregated_prices,
                    price_history, supported_assets, now, ticks, last >>

\* try_aggregate_prices on the asset's buffer as it stands.
run_try_aggregate_prices_returns(asset, out) ==
    /\ aggregated_prices' = out.aggregated_prices
    /\ price_history' = out.price_history
    /\ oracle_nodes' = out.oracle_nodes
    /\ last' = Call("try_aggregate_prices", "", asset, out.result, << >>)
    /\ UNCHANGED << config, rate_limits, price_data, supported_assets, now, ticks >>

run_try_aggregate_prices(asset) ==
    run_try_aggregate_prices_returns(asset,
                                     try_aggregate_prices(asset, price_data[asset]))

\* The contract as initialize("admin") leaves it.
InitHarness ==
    /\ InitPayments
    /\ InitSecurity
    /\ config = << initial_config("admin") >>
    /\ oracle_nodes = EmptyMap
    /\ rate_limits = EmptyMap
    /\ price_data = [a \in Assets |-> << >>]
    /\ aggregated_prices = EmptyMap
    /\ price_history = [a \in Assets |-> << >>]
    /\ supported_assets = << >>
    /\ now = 0
    /\ ticks = 0
    /\ last = Call("initialize", "admin", "", "ok", << >>)

NextHarness ==
    \/ UNCHANGED << payment_vars, security_vars >> /\ \E h \in HarnessNodes : build_node(h[1], h[2], h[3])
    \/ UNCHANGED << payment_vars, security_vars >> /\ \E n \in NodeAddress : deactivate_oracle_node("admin", n)
    \/ UNCHANGED << payment_vars, security_vars >> /\ MaySubmit /\ \E n \in NodeAddress, a \in Assets, p \in HarnessPrices,
                       c \in HarnessConfidences :
           n \in DOMAIN oracle_nodes /\ push_price_data(n, a, p, c)
    \/ UNCHANGED << payment_vars, security_vars >> /\ \E a \in Assets : MayAggregate(a) /\ run_try_aggregate_prices(a)
    \/ UNCHANGED << payment_vars, security_vars >> /\ MaySubmit /\ \E c \in NodeAddress, p \in HarnessPrices :
           submit_price(c, GoodRequest("XLM", p, now))
    \/ UNCHANGED << payment_vars, security_vars >> /\ \E a \in Assets : get_price(a)
    \/ UNCHANGED << payment_vars, security_vars >> /\ \E a \in Assets : get_fallback_price(a)
    \/ UNCHANGED << payment_vars, security_vars >> /\ MayTick(HarnessTicks) /\ \E d \in TickDeltas : advance_ledger(d)

SpecHarness == InitHarness /\ [][NextHarness]_vars

\* ------------------------------------------------------ rate-limit harness
\* The contract with a node's rate-limit record taken to the edge of its
\* hourly allowance, so that calls fall on both sides of the limit and of the
\* window's end.
NextRateLimit ==
    \/ UNCHANGED << payment_vars, security_vars >> /\ \E n \in NodeAddress, s \in Stakes : register_oracle_node(n, Registration(n, s))
    \/ UNCHANGED << payment_vars, security_vars >> /\ \E n \in NodeAddress, k \in HarnessSubmissionCounts :
           /\ n \in DOMAIN rate_limits
           /\ rate_limits[n].submission_count = 0
           /\ record_node_submissions(n, k)
    \/ UNCHANGED << payment_vars, security_vars >> /\ MaySubmit /\ \E c \in Address, r \in Requests(now) : submit_price(c, r)
    \/ UNCHANGED << payment_vars, security_vars >> /\ \E n \in NodeAddress : deactivate_oracle_node("admin", n)
    \/ UNCHANGED << payment_vars, security_vars >> /\ MayTick(RateLimitTicks) /\ \E d \in TickDeltas : advance_ledger(d)

SpecRateLimit == InitHarness /\ [][NextRateLimit]_vars

\* ----------------------------------------------------- aggregation harness
\* Two eligible nodes of different stake, submissions of sufficient
\* confidence at prices that agree and disagree, and a history taken to its
\* capacity, all at one ledger time: the states in which aggregation
\* succeeds, fails with a price already stored, and overflows the history.
AggregationNodes == {<< "oracle1", 2000 >>, << "oracle2", 5000 >>}

AggregationPrices == {1000000, 1200000}

\* Calls of update_price_history made in a row with the stored price.
HistoryFills == {99}

MayStore(max_len) == \A a \in Assets : Len(price_data[a]) < max_len

RECURSIVE update_price_history_times(_, _, _)
update_price_history_times(history, aggregated_price, k) ==
    IF k = 0 THEN history
    ELSE IF k = 1 THEN update_price_history(history, aggregated_price)
    ELSE LET h == update_price_history_times(history, aggregated_price, k \div 2)
         IN  IF h # << >>
             THEN update_price_history_times(h, aggregated_price, k - k \div 2)
             ELSE h

\* update_price_history, k times, with the asset's stored price.
fill_price_history(asset, k) ==
    /\ price_history' =
           [price_history EXCEPT ![asset] =
               update_price_history_times(@, aggregated_prices[asset], k)]
    /\ UNCHANGED << config, oracle_nodes, rate_limits, price_data,
                    aggregated_prices, supported_assets, now, ticks, last >>

NextAggregation ==
    \/ UNCHANGED << payment_vars, security_vars >> /\ \E h \in AggregationNodes : register_oracle_node(h[1], Registration(h[1], h[2]))
    \/ UNCHANGED << payment_vars, security_vars >> /\ \E n \in {"oracle1"} : deactivate_oracle_node("admin", n)
    \/ UNCHANGED << payment_vars, security_vars >> /\ MayStore(AggregationBuffer) /\ \E n \in {"oracle1"}, a \in Assets,
                                          p \in AggregationPrices :
           n \in DOMAIN oracle_nodes /\ push_price_data(n, a, p, 80)
    \/ UNCHANGED << payment_vars, security_vars >> /\ \E a \in Assets : MayAggregate(a) /\ run_try_aggregate_prices(a)
    \/ UNCHANGED << payment_vars, security_vars >> /\ MayStore(AggregationBuffer) /\ \E c \in NodeAddress, p \in AggregationPrices :
           submit_price(c, GoodRequest("XLM", p, now))
    \/ UNCHANGED << payment_vars, security_vars >> /\ \E a \in Assets, k \in HistoryFills :
           /\ a \in DOMAIN aggregated_prices
           /\ Len(price_history[a]) = 1
           /\ fill_price_history(a, k)

SpecAggregation == InitHarness /\ [][NextAggregation]_vars

\* --------------------------------------------------------- outlier harness
\* Two registered nodes of different stake and a buffer of submissions at
\* the median, at exactly 10% above it and just beyond, so that aggregations
\* run with and without outliers and with submissions of an ineligible node.
OutlierNodes == {<< "oracle1", 2000 >>, << "oracle2", 5000 >>}

\* A node registered earlier, with ten judged submissions on record of which
\* nine were accurate.
SeasonedNodes == {<< "oracle2", 5000, << 9, 1 >> >>}

OutlierPrices == {1000000, 1100000, 1100001}

\* Most submissions the asset's buffer is let grow to in the outlier harness.
OutlierBuffer == 4

NextOutliers ==
    \/ UNCHANGED << payment_vars, security_vars >> /\ \E h \in OutlierNodes : register_oracle_node(h[1], Registration(h[1], h[2]))
    \/ UNCHANGED << payment_vars, security_vars >> /\ \E h \in SeasonedNodes : build_node(h[1], h[2], h[3])
    \/ UNCHANGED << payment_vars, security_vars >> /\ \E n \in {"oracle2"} : deactivate_oracle_node("admin", n)
    \/ UNCHANGED << payment_vars, security_vars >> /\ MayStore(OutlierBuffer) /\ \E n \in NodeAddress, p \in OutlierPrices :
           n \in DOMAIN oracle_nodes /\ push_price_data(n, "XLM", p, 80)
    \/ UNCHANGED << payment_vars, security_vars >> /\ \E a \in Assets : MayAggregate(a) /\ run_try_aggregate_prices(a)
    \/ UNCHANGED << payment_vars, security_vars >> /\ \E a \in Assets : get_price(a)

SpecOutliers == InitHarness /\ [][NextOutliers]_vars

\* -------------------------------------------------------- slashing harness
\* No entry point calls OracleNode::slash_stake; here it is applied to the
\* stored record of a registered node, as a caller of the library would.
SlashAmounts == {500, 1001}

slash_node(n, slash_amount) ==
    /\ n \in DOMAIN oracle_nodes
    /\ oracle_nodes' = MapSet(oracle_nodes, n, slash_stake(oracle_nodes[n], slash_amount))
    /\ last' = Call("slash_stake", "", n, "ok", << >>)
    /\ UNCHANGED << config, rate_limits, price_data, aggregated_prices,
                    price_history, supported_assets, now, ticks >>

NextSlashing ==
    \/ UNCHANGED << payment_vars, security_vars >> /\ \E n \in NodeAddress, s \in Stakes : register_oracle_node(n, Registration(n, s))
    \/ UNCHANGED << payment_vars, security_vars >> /\ \E n \in NodeAddress : deactivate_oracle_node("admin", n)
    \/ UNCHANGED << payment_vars, security_vars >> /\ \E n \in NodeAddress, m \in SlashAmounts : slash_node(n, m)
    \/ UNCHANGED << payment_vars, security_vars >> /\ MaySubmit /\ \E c \in NodeAddress, p \in ValidPrices :
           submit_price(c, GoodRequest("XLM", p, now))

SpecSlashing == InitHarness /\ [][NextSlashing]_vars

\* ----------------------------------------------------------- burst harness
\* One node submitting as often as the rate limiter lets it, on both sides
\* of the end of a window.
\* Most submissions the asset's buffer is let grow to in the burst harness.
BurstSubmissions == 125
\* Most ledger advances of a run of the burst harness.
BurstTicks == 2

\* The ledger advances between runs of this many submissions.
BurstStep == 30

\* Ledger-clock steps: to the last second of a window, and over its end.
BurstTickDeltas == {1, 3599}

MayTickBurst ==
    /\ MayTick(BurstTicks)
    /\ \A a \in Assets : Len(price_data[a]) % BurstStep = 0

NextBurst ==
    \/ UNCHANGED << payment_vars, security_vars >> /\ \E n \in {"oracle1"} : register_oracle_node(n, Registration(n, 2000))
    \/ UNCHANGED << payment_vars, security_vars >> /\ MayStore(BurstSubmissions) /\ \E c \in {"oracle1"} :
           submit_price(c, GoodRequest("XLM", 1000000, now))
    \/ UNCHANGED << payment_vars, security_vars >> /\ MayTickBurst /\ \E d \in BurstTickDeltas : advance_ledger(d)

SpecBurst == InitHarness /\ [][NextBurst]_vars

\* --------------------------------------------- historical-confidence harness
\* validate_against_historical_data applied, as submit_price applies it, to
\* buffers that hold valid prices. Prices are in stroops, all within the
\* 1..1_000_000_0000000 that validate_price_data allows.
ConfidenceBuffer == 3

ConfidenceTicks == 1

BufferedPrices == {1, 1000000}

BufferedConfidences == {50, 80}

\* At valid mean 1000000: deviations of 0, 1, 2, 19, 50 and 51 percent; at
\* valid mean 1, 1073741825 deviates by 25 * 2^32 percent.
JudgedPrices == {1, 1000000, 1010000, 1020000, 1190000, 1500000, 1510000, 1073741825}

\* The confidence submit_price would store with a submission at new_price
\* (lib.rs 130-144).
apply_validate_against_historical_data(new_price) ==
    /\ last' = Call("validate_against_historical_data", "", "XLM", "ok",
                    << new_price,
                       validate_against_historical_data(new_price, price_data["XLM"], now) >>)
    /\ UNCHANGED << storage, now, ticks >>

NextConfidence ==
    \/ UNCHANGED << payment_vars, security_vars >> /\ \E n \in {"oracle1"} : register_oracle_node(n, Registration(n, 2000))
    \/ UNCHANGED << payment_vars, security_vars >> /\ MayStore(ConfidenceBuffer) /\ \E p \in BufferedPrices, c \in BufferedConfidences :
           "oracle1" \in DOMAIN oracle_nodes /\ push_price_data("oracle1", "XLM", p, c)
    \/ UNCHANGED << payment_vars, security_vars >> /\ MayStore(ConfidenceBuffer + 1) /\ \E p \in {1000000, 1190000} :
           submit_price("oracle1", GoodRequest("XLM", p, now))
    \/ UNCHANGED << payment_vars, security_vars >> /\ \E p \in JudgedPrices : apply_validate_against_historical_data(p)
    \/ UNCHANGED << payment_vars, security_vars >> /\ MayTick(ConfidenceTicks) /\ \E d \in {86401} : advance_ledger(d)

SpecConfidence == InitHarness /\ [][NextConfidence]_vars

\* ------------------------------------------------------- history harness
\* Aggregations at successive ledger times: one node's valid submissions,
\* the ledger advancing within and beyond the staleness threshold.
HistoryBuffer == 5

HistoryTicks == 2

HistoryPrices == {1000000, 1050000}

HistoryTickDeltas == {1, 301}

NextHistory ==
    \/ UNCHANGED << payment_vars, security_vars >> /\ \E n \in {"oracle1"} : register_oracle_node(n, Registration(n, 2000))
    \/ UNCHANGED << payment_vars, security_vars >> /\ MayStore(HistoryBuffer) /\ \E p \in HistoryPrices :
           "oracle1" \in DOMAIN oracle_nodes /\ push_price_data("oracle1", "XLM", p, 80)
    \/ UNCHANGED << payment_vars, security_vars >> /\ \E a \in Assets : MayAggregate(a) /\ run_try_aggregate_prices(a)
    \/ UNCHANGED << payment_vars, security_vars >> /\ \E a \in Assets : get_price(a)
    \/ UNCHANGED << payment_vars, security_vars >> /\ MayTick(HistoryTicks) /\ \E d \in HistoryTickDeltas : advance_ledger(d)

SpecHistory == InitHarness /\ [][NextHistory]_vars

\* ============================================== automated-payment-contract
\* The contract is called through its client, as its tests call it: an
\* invocation that returns Err or panics leaves no write behind, neither in
\* the contract's storage nor in the token.  One token is modelled, by its
\* balances; a transfer fails when the sender holds less than the amount.
\* u128 arithmetic is not taken to its limits: every amount stays far below
\* 2^127.

\* ------------------------------------------------------------------ bounds
\* Most schedules created in a run.
MaxSchedules == 1
\* The same, in the two-schedule scenario.
ScenarioSchedules == 2
\* Most ledger advances of a run of the payment contract.
PaymentTicks == 3
\* The same, in the two-schedule scenario.
ScenarioPaymentTicks == 2
\* Most tokens deposited for one schedule before top_up_schedule is no
\* longer called for it with a positive amount.
MaxDeposit == 400

\* ------------------------------------------------------------------ inputs
PAYMENT_AMOUNT == 100

PaymentCallers == {"payer", "recipient"}

PaymentAmounts == {0, PAYMENT_AMOUNT, 6000}

TopUpAmounts == {0, 50, PAYMENT_AMOUNT}

Frequencies == {"Daily"}

ScheduleIds == 1..(MaxSchedules + 1)

StartTimes(t) == {t, t + 86400} \cup (IF t > 0 THEN {t - 1} ELSE {})

\* None, two daily intervals after the start, and the start itself.
EndTimes(start_time) == {<< >>, << start_time + 2 * 86400 >>, << start_time >>}

PaymentTickDeltas == {86400}

\* ---------------------------------------------------------- payment_schedule
calculate_next_payment_time(frequency, current_time) ==
    IF frequency = "Daily" THEN current_time + 86400
    ELSE IF frequency = "Weekly" THEN current_time + 604800
    ELSE current_time + 2592000

\* -------------------------------------------------------------- validation
validate_schedule_params(payer, recipient, amount, start_time, end_time, current_time) ==
    IF amount = 0 THEN "InvalidAmount"
    ELSE IF payer = recipient THEN "InvalidInput"
    ELSE IF start_time < current_time THEN "InvalidStartTime"
    ELSE IF end_time # << >> /\ end_time[1] <= start_time THEN "InvalidEndTime"
    ELSE "ok"

validate_funds(balances, payer, required_amount) ==
    IF balances[payer] < required_amount THEN "InsufficientBalance" ELSE "ok"

calculate_required_funds(frequency, amount, start_time, end_time) ==
    IF end_time # << >>
    THEN LET duration == saturating_sub(end_time[1], start_time)
             payment_intervals ==
                 IF frequency = "Daily" THEN duration \div 86400
                 ELSE IF frequency = "Weekly" THEN duration \div 604800
                 ELSE duration \div 2592000
         IN  amount * Max2(payment_intervals, 1)
    ELSE amount * 3

\* can_execute_payment without the test of the next payment time.
can_execute_payment_any_time(schedule, current_time) ==
    IF schedule.balance < schedule.amount THEN FALSE
    ELSE IF schedule.payment_count = 0 /\ current_time < schedule.start_time
    THEN FALSE
    ELSE IF schedule.end_time # << >> /\ current_time > schedule.end_time[1]
    THEN FALSE
    ELSE TRUE

can_execute_payment(schedule, current_time) ==
    IF schedule.balance < schedule.amount THEN FALSE
    ELSE IF schedule.payment_count = 0 /\ current_time < schedule.start_time
    THEN FALSE
    ELSE IF schedule.payment_count # 0 /\ current_time < schedule.next_payment_time
    THEN FALSE
    ELSE IF schedule.end_time # << >> /\ current_time > schedule.end_time[1]
    THEN FALSE
    ELSE TRUE

should_retry_payment(failed_attempts) == failed_attempts < 3

\* ------------------------------------------------------------------- token
\* token::Client::transfer / try_transfer: [ok, balances].
transfer(balances, from, to, amount) ==
    IF balances[from] < amount
    THEN [ok |-> FALSE, balances |-> balances]
    ELSE [ok |-> TRUE,
          balances |-> [a \in DOMAIN balances |->
                           IF from = to THEN balances[a]
                           ELSE IF a = from THEN balances[a] - amount
                           ELSE IF a = to THEN balances[a] + amount
                           ELSE balances[a]]]

\* ---------------------------------------------------------------- contract
\* An operation returns [result, value] and the storage and token state it
\* has written by then.  What it returns when it has written nothing:
payment_unchanged(result) ==
    [result |-> result, value |-> << >>,
     schedule_counter |-> schedule_counter,
     schedules |-> schedules,
     user_schedules |-> user_schedules,
     token_balances |-> token_balances,
     deposited |-> deposited,
     refunded |-> refunded]

\* and when its writes are the one schedule and the token balances:
payment_written(result, schedule, balances) ==
    [payment_unchanged(result) EXCEPT
        !.schedules = MapSet(schedules, schedule.id, schedule),
        !.token_balances = balances]

\* create_schedule after get_next_schedule_id and the transfer:
create_schedule_stored(payer, recipient, amount, frequency, start_time, end_time, required_funds, schedule_id, moved) ==
    IF ~moved.ok THEN payment_unchanged("HostError")
    ELSE [result |-> "ok", value |-> << schedule_id >>,
          schedule_counter |-> schedule_id,
          schedules |->
              MapSet(schedules, schedule_id,
                     [id |-> schedule_id, payer |-> payer, recipient |-> recipient,
                      token |-> "token", amount |-> amount, frequency |-> frequency,
                      status |-> "Active", balance |-> required_funds,
                      total_paid |-> 0, payment_count |-> 0, failed_attempts |-> 0,
                      start_time |-> start_time, end_time |-> end_time,
                      next_payment_time |-> start_time, created_at |-> now,
                      last_payment_at |-> << >>]),
          user_schedules |->
              [u \in DOMAIN user_schedules |->
                  IF u \in {payer, recipient}
                  THEN Append(user_schedules[u], schedule_id)
                  ELSE user_schedules[u]],
          token_balances |-> moved.balances,
          deposited |-> MapSet(deposited, schedule_id, required_funds),
          refunded |-> MapSet(refunded, schedule_id, 0)]

\* create_schedule after calculate_required_funds:
create_schedule_funded(payer, recipient, amount, frequency, start_time, end_time, required_funds) ==
    IF validate_funds(token_balances, payer, required_funds) # "ok"
    THEN payment_unchanged(validate_funds(token_balances, payer, required_funds))
    ELSE create_schedule_stored(payer, recipient, amount, frequency, start_time,
                                end_time, required_funds, schedule_counter + 1,
                                transfer(token_balances, payer, "contract",
                                         required_funds))

create_schedule_outcome(payer, recipient, amount, frequency, start_time, end_time) ==
    IF validate_schedule_params(payer, recipient, amount, start_time, end_time, now)
           # "ok"
    THEN payment_unchanged(validate_schedule_params(payer, recipient, amount,
                                                    start_time, end_time, now))
    ELSE create_schedule_funded(payer, recipient, amount, frequency, start_time,
                                end_time,
                                calculate_required_funds(frequency, amount,
                                                         start_time, end_time))

\* execute_payment_refunded leaving the refunded amount in the schedule's
\* balance.
execute_payment_refunded_keeps_balance(schedule, moved) ==
    IF ~moved.ok THEN payment_unchanged("HostError")
    ELSE [payment_written("ok", schedule, moved.balances)
             EXCEPT !.refunded = MapSet(refunded, schedule.id,
                                        refunded[schedule.id] + schedule.balance)]

\* execute_payment after the refund of a completed schedule's balance:
execute_payment_refunded(schedule, moved) ==
    IF ~moved.ok THEN payment_unchanged("HostError")
    ELSE [payment_written("ok", [schedule EXCEPT !.balance = 0], moved.balances)
             EXCEPT !.refunded = MapSet(refunded, schedule.id,
                                        refunded[schedule.id] + schedule.balance)]

\* execute_payment_counted completing a schedule with an end time only when
\* its balance is used up, whatever the next payment time.
execute_payment_counted_ignores_end_time(schedule, balances) ==
    IF schedule.balance < schedule.amount
    THEN IF schedule.end_time # << >> /\ schedule.balance > 0
         THEN execute_payment_refunded(
                  [schedule EXCEPT !.status = "Completed"],
                  transfer(balances, "contract", schedule.payer, schedule.balance))
         ELSE payment_written("ok", [schedule EXCEPT !.status = "Completed"],
                              balances)
    ELSE payment_written("ok", schedule, balances)

\* execute_payment after the schedule's counters were updated: the check
\* whether the schedule is completed.
execute_payment_counted(schedule, balances) ==
    IF schedule.end_time # << >>
    THEN IF \/ schedule.next_payment_time > schedule.end_time[1]
            \/ schedule.balance < schedule.amount
         THEN IF schedule.balance > 0
              THEN execute_payment_refunded(
                       [schedule EXCEPT !.status = "Completed"],
                       transfer(balances, "contract", schedule.payer,
                                schedule.balance))
              ELSE payment_written("ok", [schedule EXCEPT !.status = "Completed"],
                                   balances)
         ELSE payment_written("ok", schedule, balances)
    ELSE IF schedule.balance < schedule.amount
    THEN payment_written("ok", [schedule EXCEPT !.status = "Completed"], balances)
    ELSE payment_written("ok", schedule, balances)

\* execute_payment after try_transfer returned paid:
execute_payment_transferred(schedule, paid) ==
    IF paid.ok
    THEN execute_payment_counted(
             [schedule EXCEPT
                 !.balance = @ - schedule.amount,
                 !.total_paid = @ + schedule.amount,
                 !.payment_count = @ + 1,
                 !.failed_attempts = 0,
                 !.last_payment_at = << now >>,
                 !.next_payment_time =
                     calculate_next_payment_time(schedule.frequency, now)],
             paid.balances)
    ELSE payment_written(
             "PaymentFailed",
             [schedule EXCEPT
                 !.failed_attempts = @ + 1,
                 !.status = IF should_retry_payment(schedule.failed_attempts + 1)
                            THEN @ ELSE "Inactive"],
             token_balances)

execute_payment_outcome(schedule_id) ==
    IF schedule_id \notin DOMAIN schedules THEN payment_unchanged("ScheduleNotFound")
    ELSE IF schedules[schedule_id].status # "Active"
    THEN payment_unchanged("ScheduleNotActive")
    ELSE IF ~can_execute_payment(schedules[schedule_id], now)
    THEN payment_unchanged("PaymentNotDue")
    ELSE execute_payment_transferred(
             schedules[schedule_id],
             transfer(token_balances, "contract", schedules[schedule_id].recipient,
                      schedules[schedule_id].amount))

update_schedule_status_outcome(schedule_id, payer, active) ==
    IF schedule_id \notin DOMAIN schedules THEN payment_unchanged("ScheduleNotFound")
    ELSE IF schedules[schedule_id].payer # payer THEN payment_unchanged("PayerOnly")
    ELSE IF schedules[schedule_id].status \in {"Cancelled", "Completed"}
    THEN payment_unchanged("OperationNotAllowed")
    ELSE IF schedules[schedule_id].status = (IF active THEN "Active" ELSE "Inactive")
    THEN payment_unchanged("ok")
    ELSE payment_written("ok",
                         [schedules[schedule_id] EXCEPT
                             !.status = IF active THEN "Active" ELSE "Inactive"],
                         token_balances)

\* cancel_schedule after the refund:
cancel_schedule_refunded(schedule, moved) ==
    IF ~moved.ok THEN payment_unchanged("HostError")
    ELSE [payment_written("ok",
                          [schedule EXCEPT !.status = "Cancelled", !.balance = 0],
                          moved.balances)
             EXCEPT !.refunded = MapSet(refunded, schedule.id,
                                        refunded[schedule.id] + schedule.balance)]

cancel_schedule_outcome(schedule_id, payer) ==
    IF schedule_id \notin DOMAIN schedules THEN payment_unchanged("ScheduleNotFound")
    ELSE IF schedules[schedule_id].payer # payer THEN payment_unchanged("PayerOnly")
    ELSE IF schedules[schedule_id].status = "Cancelled"
    THEN payment_unchanged("ScheduleAlreadyCancelled")
    ELSE IF schedules[schedule_id].balance > 0
    THEN cancel_schedule_refunded(
             schedules[schedule_id],
             transfer(token_balances, "contract", payer,
                      schedules[schedule_id].balance))
    ELSE payment_written("ok",
                         [schedules[schedule_id] EXCEPT
                             !.status = "Cancelled", !.balance = 0],
                         token_balances)

\* top_up_schedule after the transfer:
top_up_schedule_transferred(schedule, amount, moved) ==
    IF ~moved.ok THEN payment_unchanged("HostError")
    ELSE [payment_written("ok", [schedule EXCEPT !.balance = @ + amount],
                          moved.balances)
             EXCEPT !.deposited = MapSet(deposited, schedule.id,
                                         deposited[schedule.id] + amount)]

\* top_up_schedule without the check of the schedule's status.
top_up_schedule_outcome_any_status(schedule_id, payer, amount) ==
    IF schedule_id \notin DOMAIN schedules THEN payment_unchanged("ScheduleNotFound")
    ELSE IF schedules[schedule_id].payer # payer THEN payment_unchanged("PayerOnly")
    ELSE IF amount = 0 THEN payment_unchanged("InvalidAmount")
    ELSE IF validate_funds(token_balances, payer, amount) # "ok"
    THEN payment_unchanged(validate_funds(token_balances, payer, amount))
    ELSE top_up_schedule_transferred(
             schedules[schedule_id], amount,
             transfer(token_balances, payer, "contract", amount))

top_up_schedule_outcome(schedule_id, payer, amount) ==
    IF schedule_id \notin DOMAIN schedules THEN payment_unchanged("ScheduleNotFound")
    ELSE IF schedules[schedule_id].payer # payer THEN payment_unchanged("PayerOnly")
    ELSE IF schedules[schedule_id].status \notin {"Active", "Inactive"}
    THEN payment_unchanged("OperationNotAllowed")
    ELSE IF amount = 0 THEN payment_unchanged("InvalidAmount")
    ELSE IF validate_funds(token_balances, payer, amount) # "ok"
    THEN payment_unchanged(validate_funds(token_balances, payer, amount))
    ELSE top_up_schedule_transferred(
             schedules[schedule_id], amount,
             transfer(token_balances, payer, "contract", amount))

\* The invocation of an entry point whose run ended as out: the host keeps
\* its writes when it returned Ok and discards them otherwise.
invoke(op, caller, subject, out) ==
    /\ IF out.result = "ok"
       THEN /\ schedule_counter' = out.schedule_counter
            /\ schedules' = out.schedules
            /\ user_schedules' = out.user_schedules
            /\ token_balances' = out.token_balances
            /\ deposited' = out.deposited
            /\ refunded' = out.refunded
       ELSE UNCHANGED << schedule_counter, schedules, user_schedules,
                         token_balances, deposited, refunded >>
    /\ last' = Call(op, caller, subject, out.result, out.value)
    /\ UNCHANGED << payment_admin, storage, now, ticks, security_vars >>

\* ------------------------------------------------------------ entry points
AutomatedPaymentContract_initialize(a) ==
    /\ IF payment_admin # << >>
       THEN /\ last' = Call("initialize", a, 0, "AlreadyInitialized", << >>)
            /\ UNCHANGED payment_admin
       ELSE /\ payment_admin' = << a >>
            /\ last' = Call("initialize", a, 0, "ok", << >>)
    /\ UNCHANGED << schedule_counter, schedules, user_schedules, token_balances,
                    deposited, refunded, storage, now, ticks, security_vars >>

create_schedule(payer, recipient, amount, frequency, start_time, end_time) ==
    invoke("create_schedule", payer, 0,
           create_schedule_outcome(payer, recipient, amount, frequency, start_time,
                                   end_time))

execute_payment(schedule_id) ==
    invoke("execute_payment", "", schedule_id, execute_payment_outcome(schedule_id))

update_schedule_status(schedule_id, payer, active) ==
    invoke("update_schedule_status", payer, schedule_id,
           update_schedule_status_outcome(schedule_id, payer, active))

cancel_schedule(schedule_id, payer) ==
    invoke("cancel_schedule", payer, schedule_id,
           cancel_schedule_outcome(schedule_id, payer))

top_up_schedule(schedule_id, payer, amount) ==
    invoke("top_up_schedule", payer, schedule_id,
           top_up_schedule_outcome(schedule_id, payer, amount))

get_schedule(schedule_id) ==
    /\ last' = IF schedule_id \in DOMAIN schedules
               THEN Call("get_schedule", "", schedule_id, "ok",
                         << schedules[schedule_id] >>)
               ELSE Call("get_schedule", "", schedule_id, "ScheduleNotFound", << >>)
    /\ UNCHANGED << payment_vars, storage, now, ticks, security_vars >>

get_user_schedules(user, offset, limit) ==
    /\ last' = Call("get_user_schedules", user, 0, "ok",
                    SubSeq(user_schedules[user], offset + 1,
                           Min2(offset + limit, Len(user_schedules[user]))))
    /\ UNCHANGED << payment_vars, storage, now, ticks, security_vars >>

\* top_up_schedule is called with a positive amount while the schedule's
\* deposits stay within MaxDeposit.
MayTopUp(schedule_id, amount) ==
    IF schedule_id \in DOMAIN deposited /\ amount > 0
    THEN deposited[schedule_id] + amount <= MaxDeposit
    ELSE TRUE

NextPayments ==
    \/ \E a \in {"admin"} : AutomatedPaymentContract_initialize(a)
    \/ schedule_counter < MaxSchedules
       /\ \E r \in PaymentCallers, m \in PaymentAmounts, f \in Frequencies,
             s \in StartTimes(now) :
             \E e \in EndTimes(s) : create_schedule("payer", r, m, f, s, e)
    \/ \E i \in ScheduleIds : execute_payment(i)
    \/ \E i \in ScheduleIds, c \in PaymentCallers, b \in BOOLEAN :
           update_schedule_status(i, c, b)
    \/ \E i \in ScheduleIds, c \in PaymentCallers : cancel_schedule(i, c)
    \/ \E i \in ScheduleIds, c \in PaymentCallers, m \in TopUpAmounts :
           MayTopUp(i, m) /\ top_up_schedule(i, c, m)
    \/ \E i \in ScheduleIds : get_schedule(i)
    \/ \E u \in PaymentCallers : get_user_schedules(u, 0, 10)
    \/ MayTick(PaymentTicks) /\ UNCHANGED << payment_vars, security_vars >>
       /\ \E d \in PaymentTickDeltas : advance_ledger(d)

SpecPayments == Init /\ [][NextPayments]_vars

\* The payer's calls on two schedules of its own, one open-ended and one
\* with an end time: created, paid, topped up and cancelled in every order.
NextTwoSchedules ==
    \/ schedule_counter < ScenarioSchedules
       /\ \E e \in {<< >>, << now + 2 * 86400 >>} :
              create_schedule("payer", "recipient", PAYMENT_AMOUNT, "Daily", now, e)
    \/ \E i \in 1..ScenarioSchedules : execute_payment(i)
    \/ \E i \in 1..ScenarioSchedules : cancel_schedule(i, "payer")
    \/ \E i \in 1..ScenarioSchedules :
           MayTopUp(i, 50) /\ top_up_schedule(i, "payer", 50)
    \/ MayTick(ScenarioPaymentTicks) /\ UNCHANGED << payment_vars, security_vars >>
       /\ \E d \in PaymentTickDeltas : advance_ledger(d)

SpecTwoSchedules == Init /\ [][NextTwoSchedules]_vars

\* One schedule of each frequency, paid from as the ledger reaches and
\* passes the end of a day, a week and a 30-day month.
FrequencyTicks == 4

AllFrequencies == {"Daily", "Weekly", "Monthly"}

\* One second, a day less one second, a week less a day, a month less a week.
FrequencyTickDeltas == {1, 86399, 518400, 1987200}

NextFrequencies ==
    \/ schedule_counter < MaxSchedules
       /\ \E f \in AllFrequencies, s \in {now, now + 86400} :
             \E e \in {<< >>, << s + 2 * 86400 >>} :
                 create_schedule("payer", "recipient", PAYMENT_AMOUNT, f, s, e)
    \/ \E i \in ScheduleIds : execute_payment(i)
    \/ \E i \in ScheduleIds, b \in BOOLEAN : update_schedule_status(i, "payer", b)
    \/ MayTick(FrequencyTicks) /\ UNCHANGED << payment_vars, security_vars >>
       /\ \E d \in FrequencyTickDeltas : advance_ledger(d)

SpecFrequencies == Init /\ [][NextFrequencies]_vars

\* The token's administrator taking tokens back from a holder
\* (StellarAssetClient::clawback): what makes a later try_transfer of the
\* contract fail.
clawback(from, amount) ==
    /\ token_balances' = [token_balances EXCEPT ![from] = @ - amount]
    /\ last' = Call("clawback", "token_admin", 0, "ok", << >>)
    /\ UNCHANGED << payment_admin, schedule_counter, schedules, user_schedules,
                    deposited, refunded, storage, now, ticks, security_vars >>

\* Most ledger advances of a run with failing transfers.
FailureTicks == 2

ClawbackAmounts == {PAYMENT_AMOUNT, 3 * PAYMENT_AMOUNT}

\* One open-ended daily schedule, paid from while the token's administrator
\* may take the contract's tokens back and the payer may top up, deactivate
\* and re-activate.
NextFailures ==
    \/ schedule_counter < MaxSchedules
       /\ create_schedule("payer", "recipient", PAYMENT_AMOUNT, "Daily", now, << >>)
    \/ \E m \in ClawbackAmounts :
           m <= token_balances["contract"] /\ clawback("contract", m)
    \/ \E i \in 1..MaxSchedules : execute_payment(i)
    \/ \E i \in 1..MaxSchedules, b \in BOOLEAN : update_schedule_status(i, "payer", b)
    \/ \E i \in 1..MaxSchedules :
           MayTopUp(i, PAYMENT_AMOUNT) /\ top_up_schedule(i, "payer", PAYMENT_AMOUNT)
    \/ MayTick(FailureTicks) /\ UNCHANGED << payment_vars, security_vars >>
       /\ \E d \in PaymentTickDeltas : advance_ledger(d)

SpecFailures == Init /\ [][NextFailures]_vars

\* ========================================================== security-limits
\* The SecurityContract of security-limits/src.  Every entry point returns a
\* bool, so what it wrote before returning false stays written.  An address
\* argument on which the code calls require_auth is the caller: any address
\* can authorize a call made in its own name.  Amounts are counted in XLM
\* (10^7 stroops), the unit in which the code's thresholds and the tests'
\* amounts are whole numbers, and stay far below 2^127.

\* user_limits.rs
one_day == 86400
one_month == 2629746
DEFAULT_DAILY_LIMIT == 1000
DEFAULT_MONTHLY_LIMIT == 10000
\* security.rs
LARGE_TRANSACTION_AMOUNT == 50000
VELOCITY_TRANSACTIONS == 100
STROOPS_PER_XLM == 10000000

\* --------------------------------------------------------------- bounds
MaxTransactions == 2
LimitTicks == 3
StopTicks == 1
LimitTransactions == 4

\* ------------------------------------------------------------ user_limits
UserLimits_default ==
    [daily_limit |-> DEFAULT_DAILY_LIMIT, monthly_limit |-> DEFAULT_MONTHLY_LIMIT,
     daily_spent |-> 0, monthly_spent |-> 0, last_daily_reset |-> 0,
     last_monthly_reset |-> 0, is_active |-> TRUE]

UserLimits_new(daily_limit, monthly_limit, current_time) ==
    [daily_limit |-> daily_limit, monthly_limit |-> monthly_limit,
     daily_spent |-> 0, monthly_spent |-> 0, last_daily_reset |-> current_time,
     last_monthly_reset |-> current_time, is_active |-> TRUE]

reset_daily_if_needed(limits, current_time) ==
    IF current_time >= limits.last_daily_reset + one_day
    THEN [limits EXCEPT !.daily_spent = 0, !.last_daily_reset = current_time]
    ELSE limits

reset_monthly_if_needed(limits, current_time) ==
    IF current_time >= limits.last_monthly_reset + one_month
    THEN [limits EXCEPT !.monthly_spent = 0, !.last_monthly_reset = current_time]
    ELSE limits

\* can_spend looking at the daily limit only.
can_spend_daily_only(limits, amount) ==
    IF ~limits.is_active THEN FALSE
    ELSE limits.daily_spent + amount <= limits.daily_limit

can_spend(limits, amount) ==
    IF ~limits.is_active THEN FALSE
    ELSE /\ limits.daily_spent + amount <= limits.daily_limit
         /\ limits.monthly_spent + amount <= limits.monthly_limit

add_spending(limits, amount) ==
    [limits EXCEPT !.daily_spent = @ + amount, !.monthly_spent = @ + amount]

get_remaining_daily(limits) == Max2(limits.daily_limit - limits.daily_spent, 0)

get_remaining_monthly(limits) == Max2(limits.monthly_limit - limits.monthly_spent, 0)

load_user_limits(user) ==
    IF user \in DOMAIN user_limits THEN << user_limits[user] >> ELSE << >>

\* Option::unwrap_or_default of the loaded limits
load_user_limits_or_default(user) ==
    IF user \in DOMAIN user_limits THEN user_limits[user] ELSE UserLimits_default

\* --------------------------------------------------------------- security
\* i128 division, which truncates towards zero
TruncDiv(a, b) == IF a >= 0 THEN a \div b ELSE 0 - ((0 - a) \div b)

\* total / count of amounts kept in stroops: the whole XLM of the quotient
\* and the stroops beyond them.
StroopsQuotient(total, count) ==
    IF total >= 0
    THEN << total \div count, ((total % count) * STROOPS_PER_XLM) \div count >>
    ELSE << TruncDiv(total, count),
            0 - ((((0 - total) % count) * STROOPS_PER_XLM) \div count) >>

SecurityMetrics_new(user, current_time) ==
    [user |-> user, transaction_count_24h |-> 0, total_amount_24h |-> 0,
     unique_recipients_24h |-> 0, avg_transaction_amount |-> << 0, 0 >>,
     last_transaction_time |-> current_time, risk_score |-> 0]

risk_score_of(metrics, current_time) ==
    (IF metrics.transaction_count_24h > 50 THEN 30
     ELSE IF metrics.transaction_count_24h > 20 THEN 15 ELSE 0)
    + (IF metrics.total_amount_24h > 100000 THEN 25
       ELSE IF metrics.total_amount_24h > 10000 THEN 10 ELSE 0)
    + (IF metrics.unique_recipients_24h > 20 THEN 20
       ELSE IF metrics.unique_recipients_24h > 10 THEN 10 ELSE 0)
    + (IF current_time - metrics.last_transaction_time < 60 THEN 15 ELSE 0)

calculate_risk_score(metrics, current_time) ==
    [metrics EXCEPT !.risk_score = Min2(risk_score_of(metrics, current_time), 100)]

update_with_transaction(metrics, amount, recipient, current_time) ==
    calculate_risk_score(
        [metrics EXCEPT
            !.transaction_count_24h = @ + 1,
            !.total_amount_24h = @ + amount,
            !.last_transaction_time = current_time,
            !.avg_transaction_amount =
                StroopsQuotient(metrics.total_amount_24h + amount,
                                metrics.transaction_count_24h + 1)],
        current_time)

is_address_whitelisted(address) == address \in DOMAIN whitelist

is_address_blacklisted(address) == address \in DOMAIN blacklist

\* is_emergency_stop_active never finding the stop set.
is_emergency_stop_active_never == FALSE

is_emergency_stop_active ==
    IF emergency_stop_key = << >> THEN FALSE ELSE emergency_stop_key[1]

load_security_metrics_or_new(user, current_time) ==
    IF user \in DOMAIN security_metrics THEN security_metrics[user]
    ELSE SecurityMetrics_new(user, current_time)

get_security_status(user) ==
    IF user \notin DOMAIN security_metrics THEN "Normal"
    ELSE IF security_metrics[user].risk_score > 80 THEN "Blocked"
    ELSE IF security_metrics[user].risk_score > 50 THEN "Suspicious"
    ELSE "Normal"

\* The alert types detect_suspicious_activity raises, in its order.
alert_types(metrics, recipient, amount) ==
    (IF is_address_blacklisted(recipient) THEN << "UnknownAddress" >> ELSE << >>)
    \o (IF metrics.transaction_count_24h > VELOCITY_TRANSACTIONS
        THEN << "VelocityAnomaly" >> ELSE << >>)
    \o (IF amount > LARGE_TRANSACTION_AMOUNT THEN << "LargeTransaction" >> ELSE << >>)
    \o (IF metrics.risk_score > 70 THEN << "SuspiciousActivity" >> ELSE << >>)

alert_message(alert_type) ==
    IF alert_type = "UnknownAddress" THEN "Transaction to blacklisted address"
    ELSE IF alert_type = "VelocityAnomaly" THEN "Unusually high transaction velocity"
    ELSE IF alert_type = "LargeTransaction" THEN "Large transaction amount detected"
    ELSE "High risk score detected"

Alert_new(alert_id, user, alert_type, triggered_at, amount, message) ==
    [alert_id |-> alert_id, user |-> user, alert_type |-> alert_type,
     triggered_at |-> triggered_at, amount |-> amount, transaction_hash |-> << >>,
     message |-> message, is_resolved |-> FALSE]

current_alert_counter == IF alert_counter = << >> THEN 0 ELSE alert_counter[1]

\* The alerts of detect_suspicious_activity, each with the id generate_alert_id
\* gave it, and the metrics and counter it stored.
detect_suspicious_activity_alerts(user, amount, current_time, metrics, types) ==
    [alerts |-> [k \in 1..Len(types) |->
                    Alert_new(current_alert_counter + k, user, types[k],
                              current_time, amount, alert_message(types[k]))],
     metrics |-> metrics,
     alert_counter |-> IF types = << >> THEN alert_counter
                       ELSE << current_alert_counter + Len(types) >>]

detect_suspicious_activity_updated(user, recipient, amount, current_time, metrics) ==
    detect_suspicious_activity_alerts(user, amount, current_time, metrics,
                                      alert_types(metrics, recipient, amount))

detect_suspicious_activity(user, recipient, amount, current_time) ==
    detect_suspicious_activity_updated(
        user, recipient, amount, current_time,
        update_with_transaction(load_security_metrics_or_new(user, current_time),
                                amount, recipient, current_time))

\* store_alert of every alert of a Vec
RECURSIVE store_alerts(_, _)
store_alerts(stored, new_alerts) ==
    IF new_alerts = << >> THEN stored
    ELSE store_alerts(MapSet(stored,
                             << Head(new_alerts).user, Head(new_alerts).alert_id >>,
                             Head(new_alerts)),
                      Tail(new_alerts))

\* Map::remove of a key
MapRemoveKey(m, k) == [x \in (DOMAIN m) \ {k} |-> m[x]]

\* The alerts with ids first_id..50 of a user, at most limit of them, as
\* get_user_alerts and get_unresolved_alerts scan them.
\* The loop runs over the ids in ascending order and pushes each alert it
\* finds until limit of them are pushed: found is the set of ids it would
\* push without the limit, and the k-th pushed is the k-th smallest of them.
scan_alerts(user, first_id, limit, unresolved_only) ==
    LET found == {id \in first_id..50 :
                     /\ << user, id >> \in DOMAIN alerts
                     /\ (unresolved_only => ~alerts[<< user, id >>].is_resolved)}
        pushed(k) == CHOOSE id \in found :
                         Cardinality({other \in found : other < id}) = k - 1
    IN  [k \in 1..Min2(limit, Cardinality(found)) |-> alerts[<< user, pushed(k) >>]]

\* ------------------------------------------------------------ entry points
security_returns(op, caller, subject, value) ==
    /\ last' = Call(op, caller, subject, "ok", << value >>)
    /\ UNCHANGED << storage, payment_vars, now, ticks >>

security_reads(op, caller, subject, value) ==
    /\ security_returns(op, caller, subject, value)
    /\ UNCHANGED security_vars

set_user_limits_as(op, user, daily_limit, monthly_limit) ==
    IF is_emergency_stop_active
    THEN security_reads(op, user, user, FALSE)
    ELSE /\ user_limits' = MapSet(user_limits, user,
                                  UserLimits_new(daily_limit, monthly_limit, now))
         /\ security_returns(op, user, user, TRUE)
         /\ UNCHANGED << transaction_attempts, security_metrics, alerts,
                         alert_counter, alert_rules, whitelist, blacklist,
                         emergency_stop_key >>

set_user_limits(user, daily_limit, monthly_limit) ==
    set_user_limits_as("set_user_limits", user, daily_limit, monthly_limit)

get_user_limits(user) ==
    /\ last' = Call("get_user_limits", "", user, "ok", load_user_limits(user))
    /\ UNCHANGED << storage, payment_vars, now, ticks, security_vars >>

\* verify_transaction after detect_suspicious_activity returned detected:
verify_transaction_detected(user, recipient, amount, transaction_hash, limits, detected) ==
    /\ security_metrics' = MapSet(security_metrics, user, detected.metrics)
    /\ alert_counter' = detected.alert_counter
    /\ alerts' = store_alerts(alerts, detected.alerts)
    /\ IF Len(detected.alerts) > 2
       THEN /\ UNCHANGED << user_limits, transaction_attempts >>
            /\ security_returns("verify_transaction", user, recipient, FALSE)
       ELSE /\ user_limits' = MapSet(user_limits, user, add_spending(limits, amount))
            /\ transaction_attempts' =
                   MapSet(transaction_attempts, << user, now >>,
                          [user |-> user, amount |-> amount, timestamp |-> now,
                           transaction_hash |-> transaction_hash])
            /\ security_returns("verify_transaction", user, recipient, TRUE)
    /\ UNCHANGED << alert_rules, whitelist, blacklist, emergency_stop_key >>

\* verify_transaction after the due resets were applied to the loaded limits:
verify_transaction_limited(user, recipient, amount, transaction_hash, limits) ==
    IF ~can_spend(limits, amount)
    THEN security_reads("verify_transaction", user, recipient, FALSE)
    ELSE IF get_security_status(user) = "Blocked"
    THEN security_reads("verify_transaction", user, recipient, FALSE)
    ELSE verify_transaction_detected(
             user, recipient, amount, transaction_hash, limits,
             detect_suspicious_activity(user, recipient, amount, now))

verify_transaction(user, recipient, amount, transaction_hash) ==
    IF is_emergency_stop_active
    THEN security_reads("verify_transaction", user, recipient, FALSE)
    ELSE IF is_address_blacklisted(recipient)
    THEN security_reads("verify_transaction", user, recipient, FALSE)
    ELSE verify_transaction_limited(
             user, recipient, amount, transaction_hash,
             reset_monthly_if_needed(
                 reset_daily_if_needed(load_user_limits_or_default(user), now),
                 now))

add_to_whitelist(admin, address) ==
    IF is_emergency_stop_active
    THEN security_reads("add_to_whitelist", admin, address, FALSE)
    ELSE /\ whitelist' = MapSet(whitelist, address, now)
         /\ security_returns("add_to_whitelist", admin, address, TRUE)
         /\ UNCHANGED << user_limits, transaction_attempts, security_metrics,
                         alerts, alert_counter, alert_rules, blacklist,
                         emergency_stop_key >>

add_to_blacklist(admin, address) ==
    IF is_emergency_stop_active
    THEN security_reads("add_to_blacklist", admin, address, FALSE)
    ELSE /\ blacklist' = MapSet(blacklist, address, now)
         /\ security_returns("add_to_blacklist", admin, address, TRUE)
         /\ UNCHANGED << user_limits, transaction_attempts, security_metrics,
                         alerts, alert_counter, alert_rules, whitelist,
                         emergency_stop_key >>

remove_from_whitelist(admin, address) ==
    /\ whitelist' = MapRemoveKey(whitelist, address)
    /\ security_returns("remove_from_whitelist", admin, address, TRUE)
    /\ UNCHANGED << user_limits, transaction_attempts, security_metrics, alerts,
                    alert_counter, alert_rules, blacklist, emergency_stop_key >>

remove_from_blacklist(admin, address) ==
    /\ blacklist' = MapRemoveKey(blacklist, address)
    /\ security_returns("remove_from_blacklist", admin, address, TRUE)
    /\ UNCHANGED << user_limits, transaction_attempts, security_metrics, alerts,
                    alert_counter, alert_rules, whitelist, emergency_stop_key >>

is_whitelisted(address) ==
    security_reads("is_whitelisted", "", address, is_address_whitelisted(address))

is_blacklisted(address) ==
    security_reads("is_blacklisted", "", address, is_address_blacklisted(address))

create_alert_rule(admin, rule_id, alert_type, threshold_amount, time_window_seconds, max_transactions, description) ==
    /\ alert_rules' =
           MapSet(alert_rules, rule_id,
                  [rule_id |-> rule_id, alert_type |-> alert_type,
                   is_enabled |-> TRUE, threshold_amount |-> threshold_amount,
                   time_window_seconds |-> time_window_seconds,
                   max_transactions |-> max_transactions,
                   description |-> description])
    /\ security_returns("create_alert_rule", admin, rule_id, TRUE)
    /\ UNCHANGED << user_limits, transaction_attempts, security_metrics, alerts,
                    alert_counter, whitelist, blacklist, emergency_stop_key >>

get_alerts(user, limit) ==
    /\ last' = Call("get_alerts", "", user, "ok", scan_alerts(user, 1, limit, FALSE))
    /\ UNCHANGED << storage, payment_vars, now, ticks, security_vars >>

get_unresolved_alerts(user) ==
    /\ last' = Call("get_unresolved_alerts", "", user, "ok",
                    scan_alerts(user, 1, 50, TRUE))
    /\ UNCHANGED << storage, payment_vars, now, ticks, security_vars >>

resolve_alert(user, alert_id) ==
    IF << user, alert_id >> \in DOMAIN alerts
    THEN /\ alerts' = [alerts EXCEPT ![<< user, alert_id >>].is_resolved = TRUE]
         /\ security_returns("resolve_alert", user, alert_id, TRUE)
         /\ UNCHANGED << user_limits, transaction_attempts, security_metrics,
                         alert_counter, alert_rules, whitelist, blacklist,
                         emergency_stop_key >>
    ELSE security_reads("resolve_alert", user, alert_id, FALSE)

SecurityContract_get_security_status(user) ==
    security_reads("get_security_status", "", user, get_security_status(user))

reset_risk_score(admin, user) ==
    /\ security_metrics' =
           IF user \in DOMAIN security_metrics
           THEN [security_metrics EXCEPT ![user].risk_score = 0]
           ELSE security_metrics
    /\ security_returns("reset_risk_score", admin, user, TRUE)
    /\ UNCHANGED << user_limits, transaction_attempts, alerts, alert_counter,
                    alert_rules, whitelist, blacklist, emergency_stop_key >>

get_remaining_daily_limit(user) ==
    security_reads("get_remaining_daily_limit", "", user,
                   IF user \in DOMAIN user_limits
                   THEN get_remaining_daily(user_limits[user]) ELSE 0)

get_remaining_monthly_limit(user) ==
    security_reads("get_remaining_monthly_limit", "", user,
                   IF user \in DOMAIN user_limits
                   THEN get_remaining_monthly(user_limits[user]) ELSE 0)

emergency_stop(admin) ==
    /\ emergency_stop_key' = << TRUE >>
    /\ security_returns("emergency_stop", admin, "", TRUE)
    /\ UNCHANGED << user_limits, transaction_attempts, security_metrics, alerts,
                    alert_counter, alert_rules, whitelist, blacklist >>

resume_operations(admin) ==
    /\ emergency_stop_key' = << FALSE >>
    /\ security_returns("resume_operations", admin, "", TRUE)
    /\ UNCHANGED << user_limits, transaction_attempts, security_metrics, alerts,
                    alert_counter, alert_rules, whitelist, blacklist >>

SecurityContract_is_emergency_stop_active ==
    security_reads("is_emergency_stop_active", "", "", is_emergency_stop_active)

update_user_limits(user, daily_limit, monthly_limit) ==
    IF is_emergency_stop_active
    THEN security_reads("update_user_limits", user, user, FALSE)
    ELSE IF user \in DOMAIN user_limits
    THEN /\ user_limits' =
                MapSet(user_limits, user,
                       [reset_monthly_if_needed(
                            reset_daily_if_needed(user_limits[user], now), now)
                           EXCEPT !.daily_limit = daily_limit,
                                  !.monthly_limit = monthly_limit])
         /\ security_returns("update_user_limits", user, user, TRUE)
         /\ UNCHANGED << transaction_attempts, security_metrics, alerts,
                         alert_counter, alert_rules, whitelist, blacklist,
                         emergency_stop_key >>
    ELSE set_user_limits_as("update_user_limits", user, daily_limit, monthly_limit)

\* disable_user_limits and enable_user_limits
set_limits_active(op, admin, user, active) ==
    IF user \in DOMAIN user_limits
    THEN /\ user_limits' = [user_limits EXCEPT ![user].is_active = active]
         /\ security_returns(op, admin, user, TRUE)
         /\ UNCHANGED << transaction_attempts, security_metrics, alerts,
                         alert_counter, alert_rules, whitelist, blacklist,
                         emergency_stop_key >>
    ELSE security_reads(op, admin, user, FALSE)

disable_user_limits(admin, user) ==
    set_limits_active("disable_user_limits", admin, user, FALSE)

enable_user_limits(admin, user) ==
    set_limits_active("enable_user_limits", admin, user, TRUE)

\* ------------------------------------------------------------------ inputs
SecurityUsers == {"user"}

\* The addresses that call the contract: the one the tests name admin, and a
\* user.
SecurityCallers == {"admin", "user"}

Recipients == {"recipient", "suspicious"}

\* verify_transaction is called while the user's metrics count fewer than
\* max_transactions transactions.
MayVerify(user, max_transactions) ==
    IF user \in DOMAIN security_metrics
    THEN security_metrics[user].transaction_count_24h < max_transactions
    ELSE TRUE

NextSecurity ==
    \/ \E u \in SecurityUsers : set_user_limits(u, 100000, 1000000)
    \/ \E u \in SecurityUsers : get_user_limits(u)
    \/ \E u \in SecurityUsers, r \in Recipients, m \in {100, 60000} :
           MayVerify(u, MaxTransactions) /\ verify_transaction(u, r, m, "hash")
    \/ add_to_whitelist("admin", "recipient")
    \/ \E c \in SecurityCallers : add_to_blacklist(c, "suspicious")
    \/ remove_from_whitelist("admin", "recipient")
    \/ remove_from_blacklist("admin", "suspicious")
    \/ \E a \in Recipients : is_whitelisted(a)
    \/ \E a \in Recipients : is_blacklisted(a)
    \/ alert_rules = EmptyMap
       /\ create_alert_rule("admin", 1, "LargeTransaction",
                            << LARGE_TRANSACTION_AMOUNT >>, << >>, << >>,
                            "Large transaction detected")
    \/ \E u \in SecurityUsers : get_alerts(u, 10)
    \/ \E u \in SecurityUsers : get_unresolved_alerts(u)
    \/ \E u \in SecurityUsers, i \in 1..2 : resolve_alert(u, i)
    \/ \E u \in SecurityUsers : SecurityContract_get_security_status(u)
    \/ \E c \in SecurityCallers, u \in SecurityUsers : reset_risk_score(c, u)
    \/ \E u \in SecurityUsers : get_remaining_daily_limit(u)
    \/ \E u \in SecurityUsers : get_remaining_monthly_limit(u)
    \/ \E c \in SecurityCallers : emergency_stop(c)
    \/ \E c \in SecurityCallers : resume_operations(c)
    \/ SecurityContract_is_emergency_stop_active
    \/ \E u \in SecurityUsers : update_user_limits(u, 2000, 20000)
    \/ \E c \in SecurityCallers, u \in SecurityUsers : disable_user_limits(c, u)
    \/ \E c \in SecurityCallers, u \in SecurityUsers : enable_user_limits(c, u)

SpecSecurity == Init /\ [][NextSecurity]_vars

\* A user whose limits are set once and then left alone: spending over
\* several days and into the next month, with the limits disabled and enabled
\* in between.
SpendingLimitPairs == {<< 1000, 10000 >>, << 1000, 1500 >>}

SpendingAmounts == {0 - 100, 500, 1000}

\* One second short of a day, the second that completes it, and a month.
SpendingTickDeltas == {one_day - 1, 1, one_month}

NextSpending ==
    \/ \E u \in SecurityUsers, l \in SpendingLimitPairs :
           u \notin DOMAIN user_limits /\ set_user_limits(u, l[1], l[2])
    \/ \E u \in SecurityUsers, m \in SpendingAmounts :
           /\ MayVerify(u, LimitTransactions)
           /\ verify_transaction(u, "recipient", m, "hash")
    \/ \E u \in SecurityUsers : disable_user_limits("admin", u)
    \/ \E u \in SecurityUsers : enable_user_limits("admin", u)
    \/ \E u \in SecurityUsers : get_remaining_daily_limit(u)
    \/ \E u \in SecurityUsers : get_remaining_monthly_limit(u)
    \/ MayTick(LimitTicks) /\ UNCHANGED << payment_vars, security_vars >>
       /\ \E d \in SpendingTickDeltas : advance_ledger(d)

SpecSpending == Init /\ [][NextSpending]_vars

\* The emergency stop set and lifted by the address the tests call admin,
\* around a user's transactions and the other calls that write the user's
\* limits, metrics and the blacklist.
NextEmergencyStop ==
    \/ \E u \in SecurityUsers : set_user_limits(u, 1000, 10000)
    \/ \E u \in SecurityUsers, r \in Recipients, m \in {100, 1000} :
           MayVerify(u, MaxTransactions) /\ verify_transaction(u, r, m, "hash")
    \/ \E u \in SecurityUsers : update_user_limits(u, 2000, 20000)
    \/ add_to_blacklist("admin", "suspicious")
    \/ remove_from_blacklist("admin", "suspicious")
    \/ emergency_stop("admin")
    \/ resume_operations("admin")
    \/ SecurityContract_is_emergency_stop_active
    \/ \E u \in SecurityUsers : disable_user_limits("admin", u)
    \/ \E u \in SecurityUsers : enable_user_limits("admin", u)
    \/ \E u \in SecurityUsers : reset_risk_score("admin", u)
    \/ MayTick(StopTicks) /\ UNCHANGED << payment_vars, security_vars >>
       /\ \E d \in {one_day} : advance_ledger(d)

SpecEmergencyStop == Init /\ [][NextEmergencyStop]_vars

\* --------------------------------------------------------------- properties
\* A property of an operation is stated of the steps its action takes; the
\* operation's name in last' is looked at first.

StopSet == IF config = << >> THEN FALSE ELSE config[1].emergency_stop

GateOpen == IF config = << >> THEN FALSE ELSE ~config[1].emergency_stop

IsAdmin(caller) == IF config = << >> THEN FALSE ELSE caller = config[1].admin

AbsDiff(a, b) == IF a > b THEN a - b ELSE b - a

\* The asset's buffer holds three submissions, by three distinct registered
\* nodes, all made at ledger time t, each within 10% of their median.
ThreeAgreeingSubmissions(asset, t) ==
    LET subs == price_data[asset]
        median == SortByPrice(subs)[2].price
    IN  /\ Len(subs) = 3
        /\ Cardinality({subs[i].oracle_node : i \in 1..3}) = 3
        /\ \A i \in 1..3 :
               /\ subs[i].timestamp = t
               /\ subs[i].oracle_node \in DOMAIN oracle_nodes
               /\ AbsDiff(subs[i].price, median) * 100 <= median * MAX_PRICE_DEVIATION

PricesOf(subs) == {subs[i].price : i \in 1..Len(subs)}

\* C1, as stated: once three distinct registered, eligible nodes have
\* submitted prices within 10% of one another at the same ledger time, the
\* third submit_price returned Ok and get_price returns an aggregated price
\* that is reliable, has num_sources = 3 and lies between the smallest and
\* the largest submitted price.
C1_ThreeNodesAggregate ==
    \A a \in Assets :
        ThreeAgreeingSubmissions(a, now) =>
            /\ (last.op = "submit_price" /\ last.subject = a) => last.result = "ok"
            /\ get_price_outcome(a).result = "ok"
            /\ LET p == get_price_outcome(a).value[1]
               IN  /\ is_reliable(p)
                   /\ p.num_sources = 3
                   /\ \E lo \in PricesOf(price_data[a]), hi \in PricesOf(price_data[a]) :
                          lo <= p.price /\ p.price <= hi

\* C2, as stated: a well-formed submit_price by a registered, eligible node
\* returns Ok while the node has made fewer than 60 calls in its current
\* window or the window has expired, and rate_limit_exceeded otherwise.
C2_RateLimitDecides ==
    [][\A cp \in ScenarioSubmissions :
          (/\ last'.op = "submit_price"
           /\ submit_price(cp[1], GoodRequest("XLM", cp[2], now))
           /\ cp[1] \in DOMAIN oracle_nodes
           /\ is_eligible(oracle_nodes[cp[1]], now))
          => last'.result =
                 IF \/ now - rate_limits[cp[1]].window_start >= RATE_LIMIT_WINDOW
                    \/ rate_limits[cp[1]].submission_count < MAX_SUBMISSIONS_PER_HOUR
                 THEN "ok" ELSE "rate_limit_exceeded"]_vars

\* The operations the contract puts behind check_emergency_stop, and those
\* of the others that C3 names.
GatedCall ==
    \/ /\ last'.op = "register_oracle_node"
       /\ \E n \in NodeAddress, s \in Stakes :
              register_oracle_node(n, Registration(n, s))
    \/ /\ last'.op = "submit_price"
       /\ \E c \in Address, r \in Requests(now) : submit_price(c, r)
    \/ /\ last'.op = "get_price"
       /\ \E a \in Assets : get_price(a)
    \/ /\ last'.op = "get_fallback_price"
       /\ \E a \in Assets : get_fallback_price(a)

UngatedCall ==
    \/ /\ last'.op = "get_oracle_node_info"
       /\ \E n \in NodeAddress : get_oracle_node_info(n)
    \/ /\ last'.op = "get_price_history"
       /\ \E a \in Assets, l \in HistoryLimits : get_price_history(a, l)
    \/ /\ last'.op = "deactivate_oracle_node"
       /\ \E c \in Address, n \in NodeAddress : deactivate_oracle_node(c, n)
    \/ /\ last'.op = "add_supported_asset"
       /\ \E c \in Address, a \in Assets : add_supported_asset(c, a)

\* C3, as stated: while the emergency stop is set, register_oracle_node,
\* submit_price, get_price, get_fallback_price, get_oracle_node_info,
\* get_price_history, deactivate_oracle_node and add_supported_asset all
\* fail with emergency_stop_active and change no state.
C3_EveryOperationGated ==
    [][(StopSet /\ (GatedCall \/ UngatedCall))
          => (last'.result = "emergency_stop_active" /\ UNCHANGED storage)]_vars

\* C3, amended: while the emergency stop is set, register_oracle_node,
\* submit_price, get_price and get_fallback_price fail with
\* emergency_stop_active and change no state, and once the flag is cleared
\* they are no longer refused with it; get_oracle_node_info,
\* get_price_history, deactivate_oracle_node and add_supported_asset never
\* fail with emergency_stop_active, whatever the flag.
C3_GatedOperations ==
    [][/\ (StopSet /\ GatedCall)
            => (last'.result = "emergency_stop_active" /\ UNCHANGED storage)
       /\ (GateOpen /\ GatedCall) => last'.result # "emergency_stop_active"
       /\ UngatedCall => last'.result # "emergency_stop_active"]_vars

\* C3: a registered node's submit_price was refused under the emergency stop.
C3_RefusedWhileStopped ==
    /\ StopSet
    /\ last.op = "submit_price"
    /\ last.caller \in DOMAIN oracle_nodes
    /\ last.result = "emergency_stop_active"

\* C4: get_price(asset) returns Ok(p) only when p is the stored
\* AggregatedPrice of the asset, p is reliable and now - p.timestamp <= 300;
\* it returns stale_price when the stored reliable price is older than
\* 300 s and price_not_available when none is stored; it changes no state.
C4_GetPrice ==
    [][\A a \in Assets :
          (last'.op = "get_price" /\ get_price(a)) =>
              /\ UNCHANGED storage
              /\ last'.result = "ok" =>
                     /\ a \in DOMAIN aggregated_prices
                     /\ last'.value = << aggregated_prices[a] >>
                     /\ is_reliable(aggregated_prices[a])
                     /\ now - aggregated_prices[a].timestamp <= 300
              /\ IF a \in DOMAIN aggregated_prices
                 THEN (/\ is_reliable(aggregated_prices[a])
                       /\ now - aggregated_prices[a].timestamp > 300)
                      => last'.result = "stale_price"
                 ELSE last'.result = "price_not_available"]_vars

\* C4: get_price has just returned the stored, reliable, fresh price.
C4_PriceReturned ==
    /\ last.op = "get_price"
    /\ last.result = "ok"
    /\ last.subject \in DOMAIN aggregated_prices
    /\ last.value = << aggregated_prices[last.subject] >>

\* C5, as stated: when the three-node aggregation of C1 is between 301 s and
\* 1800 s old, get_price returns stale_price while get_fallback_price
\* returns Ok with the price of the most recent reliable history entry.
C5_FallbackBridgesStaleness ==
    \A a \in Assets :
        (/\ price_data[a] # << >>
         /\ ThreeAgreeingSubmissions(a, price_data[a][1].timestamp)
         /\ now - price_data[a][1].timestamp > PRICE_STALENESS_THRESHOLD
         /\ now - price_data[a][1].timestamp <= fallback_staleness_threshold)
        => /\ get_price_outcome(a).result = "stale_price"
           /\ get_fallback_price_outcome(a).result = "ok"
           /\ price_history[a] # << >>
           /\ get_fallback_price_outcome(a).value
                  = << price_history[a][Len(price_history[a])].price >>

\* C6: with the contract initialized and not stopped, register_oracle_node
\* fails with node_already_registered when the address is in the registry
\* (whatever the stake), otherwise with insufficient_stake when the stake is
\* below MIN_STAKE_AMOUNT, both leaving the registry and the rate-limit map
\* unchanged; otherwise it adds exactly one node with reputation 100,
\* is_active true and zero counters, and a rate-limit record with count 0
\* and window_start = now.
C6_Registration ==
    [][\A n \in NodeAddress, s \in Stakes :
          (/\ GateOpen
           /\ last'.op = "register_oracle_node"
           /\ register_oracle_node(n, Registration(n, s))) =>
              IF n \in DOMAIN oracle_nodes
              THEN /\ last'.result = "node_already_registered"
                   /\ UNCHANGED << oracle_nodes, rate_limits >>
              ELSE IF s < MIN_STAKE_AMOUNT
              THEN /\ last'.result = "insufficient_stake"
                   /\ UNCHANGED << oracle_nodes, rate_limits >>
              ELSE /\ last'.result = "ok"
                   /\ DOMAIN oracle_nodes' = DOMAIN oracle_nodes \cup {n}
                   /\ \A m \in DOMAIN oracle_nodes : oracle_nodes'[m] = oracle_nodes[m]
                   /\ oracle_nodes'[n].address = n
                   /\ oracle_nodes'[n].stake_amount = s
                   /\ oracle_nodes'[n].reputation_score = 100
                   /\ oracle_nodes'[n].is_active
                   /\ oracle_nodes'[n].total_submissions = 0
                   /\ oracle_nodes'[n].accurate_submissions = 0
                   /\ DOMAIN rate_limits' = DOMAIN rate_limits \cup {n}
                   /\ \A m \in DOMAIN rate_limits : rate_limits'[m] = rate_limits[m]
                   /\ rate_limits'[n].submission_count = 0
                   /\ rate_limits'[n].window_start = now]_vars

\* C6: a registration was refused because the address, registered by an
\* earlier call, is in the registry.
C6_RegisteredThenRefused ==
    /\ last.op = "register_oracle_node"
    /\ last.result = "node_already_registered"
    /\ last.subject \in DOMAIN oracle_nodes
    /\ oracle_nodes[last.subject].reputation_score = 100

\* The submissions an aggregation of the asset's buffer keeps.
KeptSubmissions(asset) ==
    filter_valid_submissions(filter_recent_submissions(price_data[asset], now),
                             oracle_nodes, now)

\* C7: a node whose stake is below MIN_STAKE_AMOUNT is not eligible,
\* whatever its reputation, activity flag and last submission time; its
\* submit_price calls are rejected with node_not_eligible and none of its
\* buffered submissions is kept by an aggregation.
C7_LowStakeExcluded ==
    \A n \in DOMAIN oracle_nodes :
        oracle_nodes[n].stake_amount < MIN_STAKE_AMOUNT =>
            /\ ~is_eligible(oracle_nodes[n], now)
            /\ \A a \in Assets, p \in HarnessPrices :
                   submit_price_outcome(n, GoodRequest(a, p, now)).result
                       = "node_not_eligible"
            /\ \A a \in Assets : \A i \in 1..Len(KeptSubmissions(a)) :
                   KeptSubmissions(a)[i].oracle_node # n

\* C7: a low-stake node that is active, has reputation 100 and a valid,
\* fresh submission in the buffer has just had submit_price rejected, and an
\* aggregation of the buffer keeps other submissions.
C7_LowStakeRejected ==
    /\ last.op = "submit_price"
    /\ last.result = "node_not_eligible"
    /\ last.caller \in DOMAIN oracle_nodes
    /\ oracle_nodes[last.caller].stake_amount < MIN_STAKE_AMOUNT
    /\ oracle_nodes[last.caller].is_active
    /\ oracle_nodes[last.caller].reputation_score >= MIN_REPUTATION_SCORE
    /\ \E a \in Assets :
           /\ \E i \in 1..Len(price_data[a]) :
                  /\ price_data[a][i].oracle_node = last.caller
                  /\ is_valid(price_data[a][i])
                  /\ ~is_stale(price_data[a][i], now)
           /\ KeptSubmissions(a) # << >>

\* C8, as stated: a node that is active, has stake >= MIN_STAKE_AMOUNT and
\* reputation >= 70, and whose most recent accepted submission is no more
\* than 7 days old, is eligible, and its next well-formed submit_price is
\* not rejected with node_not_eligible.
C8_RecentSubmitterEligible ==
    \A n \in DOMAIN oracle_nodes, a \in Assets :
        (/\ oracle_nodes[n].is_active
         /\ oracle_nodes[n].stake_amount >= MIN_STAKE_AMOUNT
         /\ oracle_nodes[n].reputation_score >= MIN_REPUTATION_SCORE
         /\ \E i \in 1..Len(price_data[a]) :
                /\ price_data[a][i].oracle_node = n
                /\ now - price_data[a][i].timestamp <= REPUTATION_DECAY_TIME)
        => /\ is_eligible(oracle_nodes[n], now)
           /\ submit_price_outcome(n, GoodRequest(a, 1000000, now)).result
                  # "node_not_eligible"

\* C9: deactivate_oracle_node called by the admin on a registered node sets
\* that node's is_active to false and changes nothing else; on an
\* unregistered address it fails with node_not_found and changes nothing.
C9_Deactivation ==
    [][\A c \in Address, n \in NodeAddress :
          (/\ IsAdmin(c)
           /\ last'.op = "deactivate_oracle_node"
           /\ deactivate_oracle_node(c, n)) =>
              IF n \in DOMAIN oracle_nodes
              THEN /\ last'.result = "ok"
                   /\ oracle_nodes' = [oracle_nodes EXCEPT ![n].is_active = FALSE]
                   /\ UNCHANGED << config, rate_limits, price_data,
                                   aggregated_prices, price_history,
                                   supported_assets >>
              ELSE /\ last'.result = "node_not_found"
                   /\ UNCHANGED storage]_vars

\* C9: the admin has just deactivated a registered node.
C9_Deactivated ==
    /\ last.op = "deactivate_oracle_node"
    /\ IsAdmin(last.caller)
    /\ last.result = "ok"
    /\ last.subject \in DOMAIN oracle_nodes
    /\ ~oracle_nodes[last.subject].is_active

\* C10: add_supported_asset, deactivate_oracle_node and set_emergency_stop
\* called by an address other than the admin stored at initialization
\* return unauthorized and leave the supported assets, the registry and the
\* emergency-stop flag unchanged.
C10_AdminOnly ==
    [][\A c \in Address :
          (/\ config # << >>
           /\ ~IsAdmin(c)
           /\ last'.op \in {"add_supported_asset", "deactivate_oracle_node",
                           "set_emergency_stop"}
           /\ \/ \E a \in Assets : add_supported_asset(c, a)
              \/ \E n \in NodeAddress : deactivate_oracle_node(c, n)
              \/ \E b \in BOOLEAN : set_emergency_stop(c, b))
          => /\ last'.result = "unauthorized"
             /\ UNCHANGED << supported_assets, oracle_nodes, config >>]_vars

\* C10: a registered node, not the admin, has just been refused
\* set_emergency_stop.
C10_Refused ==
    /\ last.op = "set_emergency_stop"
    /\ config # << >>
    /\ ~IsAdmin(last.caller)
    /\ last.caller \in DOMAIN oracle_nodes
    /\ last.result = "unauthorized"

\* C11: initialize succeeds at most once: a call on an initialized contract
\* returns already_initialized and leaves the stored admin, the
\* emergency-stop flag, the registry and the rate-limit map (and all other
\* storage) unchanged, and no step of any operation changes the stored admin.
C11_InitializeOnce ==
    [][/\ \A a \in AdminCandidates :
              (/\ config # << >>
               /\ last'.op = "initialize"
               /\ initialize(a))
              => /\ last'.result = "already_initialized"
                 /\ UNCHANGED storage
       /\ config # << >> => /\ config' # << >>
                            /\ config'[1].admin = config[1].admin]_vars

\* C11: initialize, called with another address than the stored admin on a
\* contract with a registered node and the emergency stop set, was refused.
C11_SecondInitializeRefused ==
    /\ last.op = "initialize"
    /\ last.result = "already_initialized"
    /\ config # << >>
    /\ last.caller # config[1].admin
    /\ StopSet
    /\ oracle_nodes # EmptyMap

ValidationErrors ==
    {"unregistered_node", "node_not_eligible", "rate_limit_exceeded",
     "invalid_price_zero", "price_too_high", "price_too_low",
     "invalid_asset_symbol", "timestamp_too_old", "timestamp_in_future",
     "missing_signature", "invalid_signature_format"}

\* C13: a submit_price call refused by validation (unregistered_node,
\* node_not_eligible, rate_limit_exceeded, or a price, timestamp or signature
\* error) changes no rate-limit record, no node record and no buffer.
C13_RejectionWritesNothing ==
    [][\A c \in Address, r \in Requests(now) :
          (/\ last'.op = "submit_price"
           /\ submit_price(c, r)
           /\ last'.result \in ValidationErrors)
          => UNCHANGED << rate_limits, oracle_nodes, price_data >>]_vars

\* C13: a registered, eligible node whose record stands at 60 submissions in
\* the running window was refused with rate_limit_exceeded.
C13_RateLimitedRejected ==
    /\ last.op = "submit_price"
    /\ last.result = "rate_limit_exceeded"
    /\ last.caller \in DOMAIN oracle_nodes
    /\ is_eligible(oracle_nodes[last.caller], now)
    /\ rate_limits[last.caller].submission_count = MAX_SUBMISSIONS_PER_HOUR
    /\ now - rate_limits[last.caller].window_start < RATE_LIMIT_WINDOW
    /\ price_data["XLM"] # << >>

\* C15: every rate-limit record has submission_count <= 60, and a submission
\* recorded when now - window_start >= 3600 sets window_start to now and
\* restarts the count at 1.
C15_RateLimitWindow ==
    [][/\ \A n \in DOMAIN rate_limits' :
              rate_limits'[n].submission_count <= MAX_SUBMISSIONS_PER_HOUR
       /\ \A c \in NodeAddress, r \in Requests(now) :
              (/\ last'.op = "submit_price"
               /\ submit_price(c, r)
               /\ last'.result \notin ValidationErrors
               /\ c \in DOMAIN rate_limits
               /\ now - rate_limits[c].window_start >= RATE_LIMIT_WINDOW)
              => /\ rate_limits'[c].window_start = now
                 /\ rate_limits'[c].submission_count = 1]_vars

\* C15: a node registered at time 0 has had a submission recorded a week
\* later: its window starts at that time and its count is 1.
C15_WindowRestarted ==
    /\ last.op = "submit_price"
    /\ last.result \notin ValidationErrors
    /\ last.caller \in DOMAIN oracle_nodes
    /\ oracle_nodes[last.caller].registered_time = 0
    /\ now >= RATE_LIMIT_WINDOW
    /\ rate_limits[last.caller].window_start = now
    /\ rate_limits[last.caller].submission_count = 1

\* A submit_price step whose validation passed and whose aggregation
\* attempt, made on at least min_oracle_nodes recent submissions, failed.
AggregationErrors == {"no_valid_submissions", "unreliable_price",
                      "no_submissions", "no_weighted_data"}

\* C14: when an aggregation attempt triggered by submit_price fails, the
\* asset's stored AggregatedPrice, its history and every node's reputation
\* counters are unchanged, and get_price returns what it returned before.
C14_FailedAggregationKeepsPrice ==
    [][\A c \in NodeAddress, p \in AggregationPrices :
          (/\ last'.op = "submit_price"
           /\ submit_price(c, GoodRequest("XLM", p, now))
           /\ last'.result \in AggregationErrors)
          => /\ UNCHANGED << aggregated_prices, price_history, oracle_nodes >>
             /\ get_price_outcome("XLM")' = get_price_outcome("XLM")]_vars

\* C14: a submit_price call has failed in aggregation while a reliable,
\* fresh price was stored, and get_price still returns that price.
C14_PriceSurvivedFailure ==
    /\ last.op = "submit_price"
    /\ last.result \in AggregationErrors
    /\ "XLM" \in DOMAIN aggregated_prices
    /\ price_history["XLM"] # << >>
    /\ get_price_outcome("XLM").result = "ok"
    /\ get_price_outcome("XLM").value = << aggregated_prices["XLM"] >>

\* The step's aggregation attempt on the asset's buffer, as stored after the
\* step, is made and succeeds.
Aggregates(a) ==
    LET recent == filter_recent_submissions(price_data'[a], now)
    IN  /\ Len(recent) >= min_oracle_nodes
        /\ aggregate_prices(a, recent, oracle_nodes, now).result = "ok"

\* The step appends the price it stores to the asset's history, dropping
\* the oldest entry of a full history.
Appended(a) ==
    price_history'[a] =
        IF Len(price_history[a]) < MAX_HISTORY_ENTRIES
        THEN Append(price_history[a], aggregated_prices'[a])
        ELSE Append(Tail(price_history[a]), aggregated_prices'[a])

\* C16: an asset's price history never holds more than 100 entries; each
\* successful aggregation appends exactly one entry, the price it stores,
\* and drops exactly the oldest entry when the history is full; nothing else
\* changes the history.
C16_HistoryBounded ==
    [][\A a \in Assets :
          /\ Len(price_history'[a]) <= MAX_HISTORY_ENTRIES
          /\ \A c \in NodeAddress, p \in AggregationPrices :
                 (/\ last'.op = "submit_price"
                  /\ submit_price(c, GoodRequest(a, p, now))
                  /\ last'.result = "ok"
                  /\ Aggregates(a))
                 => Appended(a)
          /\ (/\ last'.op = "try_aggregate_prices"
              /\ run_try_aggregate_prices(a)
              /\ Aggregates(a))
             => Appended(a)
          /\ price_history'[a] # price_history[a]
             => \/ Aggregates(a) /\ Appended(a)
                \/ \E k \in HistoryFills : fill_price_history(a, k)]_vars

\* C16: a successful aggregation triggered by submit_price has pushed the
\* oldest entry out of a full history: 100 entries, the last one the
\* current price and different from the entries before it.
C16_OldestDropped ==
    /\ last.op = "submit_price"
    /\ last.result = "ok"
    /\ Len(price_history["XLM"]) = MAX_HISTORY_ENTRIES
    /\ price_history["XLM"][MAX_HISTORY_ENTRIES] = aggregated_prices["XLM"]
    /\ price_history["XLM"][MAX_HISTORY_ENTRIES - 1] # aggregated_prices["XLM"]
    /\ price_history["XLM"][1] = price_history["XLM"][MAX_HISTORY_ENTRIES - 1]

\* The submissions filter_valid_submissions hands to remove_outliers: valid,
\* not stale, from a registered and eligible node.
ValidSubmissions(submissions) ==
    LET keep(s) == /\ is_valid(s)
                   /\ ~is_stale(s, now)
                   /\ s.oracle_node \in DOMAIN oracle_nodes
                   /\ is_eligible(oracle_nodes[s.oracle_node], now)
    IN  SelectSeq(submissions, keep)

\* C17: whenever aggregate_prices returns Ok on submissions of which at
\* least three are valid, not stale and from eligible nodes, the price it
\* returns lies between the smallest and the largest price of the
\* submissions that remain after outlier removal.
C17_MedianWithinRange ==
    \A a \in Assets :
        LET agg == aggregate_prices(a, price_data[a], oracle_nodes, now)
            kept == remove_outliers(ValidSubmissions(price_data[a]))
        IN  (/\ Len(ValidSubmissions(price_data[a])) >= 3
             /\ agg.result = "ok")
            => \E lo \in PricesOf(kept), hi \in PricesOf(kept) :
                   lo <= agg.value[1].price /\ agg.value[1].price <= hi

\* C17: an aggregation of submissions at two different prices, from nodes
\* of different weight, has just stored a price strictly between them.
C17_MedianBetweenTwoPrices ==
    /\ last.op \in {"submit_price", "try_aggregate_prices"}
    /\ last.result = "ok"
    /\ "XLM" \in DOMAIN aggregated_prices
    /\ aggregate_prices("XLM", price_data["XLM"], oracle_nodes, now).result = "ok"
    /\ aggregate_prices("XLM", price_data["XLM"], oracle_nodes, now).value[1]
           = aggregated_prices["XLM"]
    /\ Len(ValidSubmissions(price_data["XLM"])) >= 3
    /\ \E i, j \in 1..Len(price_data["XLM"]) :
           /\ price_data["XLM"][i].price < aggregated_prices["XLM"].price
           /\ aggregated_prices["XLM"].price < price_data["XLM"][j].price
           /\ price_data["XLM"][i].oracle_node # price_data["XLM"][j].oracle_node

\* Prices on both sides of the two limits of validate_price_data.
BoundaryPrices == {0, MIN_PRICE, MAX_PRICE, MAX_PRICE + 1}

\* C18: a submit_price call with price 0 by a registered, eligible node
\* that is not rate-limited is refused with invalid_price_zero, one with a
\* price above MAX_PRICE with price_too_high, both before anything is
\* stored; prices from MIN_PRICE to MAX_PRICE pass validate_price_data; and
\* every buffered submission has 1 <= price <= MAX_PRICE.
C18_PriceRange ==
    [][/\ \A c \in NodeAddress, r \in Requests(now) :
              (/\ last'.op = "submit_price"
               /\ submit_price(c, r)
               /\ c \in DOMAIN oracle_nodes
               /\ is_eligible(oracle_nodes[c], now)
               /\ c \in DOMAIN rate_limits => can_submit(rate_limits[c], now))
              => /\ r.price = 0 => /\ last'.result = "invalid_price_zero"
                                   /\ UNCHANGED storage
                 /\ r.price > MAX_PRICE => /\ last'.result = "price_too_high"
                                           /\ UNCHANGED storage
       /\ \A p \in BoundaryPrices :
              validate_price_data(GoodRequest("XLM", p, now))
                  = IF p = 0 THEN "invalid_price_zero"
                    ELSE IF p > MAX_PRICE THEN "price_too_high"
                    ELSE "ok"
       /\ \A a \in Assets : \A i \in 1..Len(price_data'[a]) :
              /\ 1 <= price_data'[a][i].price
              /\ price_data'[a][i].price <= MAX_PRICE]_vars

\* C18: a registered, eligible node with submissions in the buffer and room
\* in its rate-limit window was refused a price of 0.
C18_ZeroPriceRefused ==
    /\ last.op = "submit_price"
    /\ last.result = "invalid_price_zero"
    /\ last.caller \in DOMAIN oracle_nodes
    /\ is_eligible(oracle_nodes[last.caller], now)
    /\ can_submit(rate_limits[last.caller], now)
    /\ rate_limits[last.caller].submission_count > 0
    /\ price_data["XLM"] # << >>

\* The schedule exists and its status is Cancelled.
IsCancelled(i) ==
    IF i \in DOMAIN schedules THEN schedules[i].status = "Cancelled" ELSE FALSE

\* What C19 says of the calls by caller c on the Cancelled schedule i.
CancelledRefuses(i, c) ==
    /\ (last'.op = "execute_payment" /\ execute_payment(i))
       => last'.result = "ScheduleNotActive"
    /\ \A b \in BOOLEAN :
           (last'.op = "update_schedule_status" /\ update_schedule_status(i, c, b))
           => last'.result = "OperationNotAllowed"
    /\ \A m \in TopUpAmounts :
           (last'.op = "top_up_schedule" /\ top_up_schedule(i, c, m))
           => last'.result = "OperationNotAllowed"
    /\ (last'.op = "cancel_schedule" /\ cancel_schedule(i, c))
       => last'.result = "ScheduleAlreadyCancelled"

\* The schedule, once Cancelled, stays Cancelled with balance 0.
CancelledStays(i) ==
    /\ schedules[i].balance = 0
    /\ schedules'[i].status = "Cancelled"
    /\ schedules'[i].balance = 0

\* C19, as stated: once a schedule is Cancelled, execute_payment returns
\* ScheduleNotActive, update_schedule_status and top_up_schedule return
\* OperationNotAllowed and cancel_schedule returns ScheduleAlreadyCancelled,
\* whoever calls, and the schedule stays Cancelled with balance 0.
C19_CancelledTerminalAnyCaller ==
    [][\A i \in ScheduleIds :
          IsCancelled(i) =>
              /\ CancelledStays(i)
              /\ \A c \in PaymentCallers : CancelledRefuses(i, c)]_vars

\* C19, amended: once a schedule is Cancelled it stays Cancelled with
\* balance 0 under every operation; execute_payment returns
\* ScheduleNotActive; called by the schedule's payer,
\* update_schedule_status and top_up_schedule return OperationNotAllowed and
\* cancel_schedule returns ScheduleAlreadyCancelled; called by anyone else,
\* the three return PayerOnly.
C19_CancelledTerminal ==
    [][\A i \in ScheduleIds :
          IsCancelled(i) =>
              /\ CancelledStays(i)
              /\ CancelledRefuses(i, schedules[i].payer)
              /\ \A c \in PaymentCallers \ {schedules[i].payer} :
                     /\ \A b \in BOOLEAN :
                            (/\ last'.op = "update_schedule_status"
                             /\ update_schedule_status(i, c, b))
                            => last'.result = "PayerOnly"
                     /\ \A m \in TopUpAmounts :
                            (last'.op = "top_up_schedule" /\ top_up_schedule(i, c, m))
                            => last'.result = "PayerOnly"
                     /\ (last'.op = "cancel_schedule" /\ cancel_schedule(i, c))
                        => last'.result = "PayerOnly"]_vars

\* C19: the payer of a schedule cancelled with a refund has been refused a
\* top-up of it.
C19_TopUpOfCancelledRefused ==
    /\ last.op = "top_up_schedule"
    /\ last.result = "OperationNotAllowed"
    /\ IsCancelled(last.subject)
    /\ last.caller = schedules[last.subject].payer
    /\ refunded[last.subject] > 0
    /\ schedules[last.subject].total_paid > 0

\* The sum of f[i] over the schedules 1..n.
RECURSIVE SumOver(_, _)
SumOver(f, n) == IF n = 0 THEN 0 ELSE f[n] + SumOver(f, n - 1)

ScheduleBalances == [i \in DOMAIN schedules |-> schedules[i].balance]

SchedulePaid == [i \in DOMAIN schedules |-> schedules[i].total_paid]

\* C20: after any sequence of create_schedule, execute_payment,
\* top_up_schedule and cancel_schedule calls, the tokens the contract holds
\* equal the sum of the schedules' balance fields; for every schedule the
\* tokens deposited (initial funding plus top-ups) equal balance +
\* total_paid + the amount refunded to the payer, and total_paid =
\* payment_count * amount.  The deposits and refunds counted are the tokens
\* that left and reached the payer's account, the payments those that
\* reached the recipient's.
C20_TokensConserved ==
    /\ token_balances["contract"] = SumOver(ScheduleBalances, schedule_counter)
    /\ \A i \in DOMAIN schedules :
           /\ deposited[i] = schedules[i].balance + schedules[i].total_paid
                                 + refunded[i]
           /\ schedules[i].total_paid = schedules[i].payment_count * schedules[i].amount
    /\ INITIAL_BALANCE - token_balances["payer"]
           = SumOver(deposited, schedule_counter) - SumOver(refunded, schedule_counter)
    /\ token_balances["recipient"] = SumOver(SchedulePaid, schedule_counter)

\* C20: two schedules, one paid from, topped up and then closed with a
\* refund, the other paid from twice, after a payment.
C20_TwoSchedulesSettled ==
    /\ last.op = "execute_payment"
    /\ last.result = "ok"
    /\ schedule_counter = 2
    /\ \E i, j \in DOMAIN schedules :
           /\ i # j
           /\ schedules[i].status \in {"Cancelled", "Completed"}
           /\ refunded[i] > 0
           /\ schedules[i].total_paid > 0
           /\ deposited[i] > calculate_required_funds(
                                 schedules[i].frequency, schedules[i].amount,
                                 schedules[i].start_time, schedules[i].end_time)
           /\ schedules[j].payment_count = 2
           /\ schedules[j].balance > 0

\* The number of whole days between a schedule's start and its end time.
ScheduleDays(schedule) == (schedule.end_time[1] - schedule.start_time) \div 86400

\* The schedule was funded at creation for its days and never topped up.
FundedForItsDays(i) ==
    /\ schedules[i].end_time # << >>
    /\ ScheduleDays(schedules[i]) >= 1
    /\ schedules[i].end_time[1]
           = schedules[i].start_time + ScheduleDays(schedules[i]) * 86400
    /\ deposited[i] = ScheduleDays(schedules[i]) * schedules[i].amount

\* C21: every schedule with an end time whose status is Completed has
\* balance 0; a successful execute_payment of a schedule with an end time
\* marks it Completed exactly when the new next_payment_time exceeds the end
\* time or the balance left after the payment is below amount; and a daily
\* schedule created for N days and never topped up is Completed, with balance
\* 0, by the payment that brings its payment_count to N, and has never more
\* than N payments.
C21_CompletedHasNoBalance ==
    /\ [](\A i \in DOMAIN schedules :
              /\ (schedules[i].end_time # << >> /\ schedules[i].status = "Completed")
                     => schedules[i].balance = 0
              /\ FundedForItsDays(i)
                     => schedules[i].payment_count <= ScheduleDays(schedules[i]))
    /\ [][\A i \in DOMAIN schedules :
               (/\ last'.op = "execute_payment"
                /\ execute_payment(i)
                /\ last'.result = "ok"
                /\ schedules[i].end_time # << >>)
                   => /\ schedules'[i].status = "Completed"
                         <=> \/ schedules'[i].next_payment_time
                                   > schedules[i].end_time[1]
                             \/ schedules[i].balance - schedules[i].amount
                                   < schedules[i].amount
                      /\ (/\ FundedForItsDays(i)
                          /\ schedules'[i].payment_count = ScheduleDays(schedules[i]))
                         => /\ schedules'[i].status = "Completed"
                            /\ schedules'[i].balance = 0]_vars

\* C21: a daily schedule created for two days has been paid at its start and
\* one day later, and the second payment completed it with nothing left.
C21_TwoDayScheduleCompleted ==
    /\ last.op = "execute_payment"
    /\ last.result = "ok"
    /\ last.subject \in DOMAIN schedules
    /\ FundedForItsDays(last.subject)
    /\ ScheduleDays(schedules[last.subject]) = 2
    /\ schedules[last.subject].payment_count = 2
    /\ schedules[last.subject].last_payment_at
           = << schedules[last.subject].start_time + 86400 >>
    /\ schedules[last.subject].status = "Completed"
    /\ schedules[last.subject].balance = 0
    /\ refunded[last.subject] = 0

\* The limits a verify_transaction call of a user starts from: the stored
\* ones, or the defaults of a user without any.
LimitsOf(u) ==
    IF u \in DOMAIN user_limits THEN user_limits[u]
    ELSE [daily_limit |-> 1000, monthly_limit |-> 10000, daily_spent |-> 0,
          monthly_spent |-> 0, last_daily_reset |-> 0, last_monthly_reset |-> 0,
          is_active |-> TRUE]

\* The spending counters once a due reset is applied.
DailySpentNow(u) ==
    IF now - LimitsOf(u).last_daily_reset >= 86400 THEN 0
    ELSE LimitsOf(u).daily_spent

MonthlySpentNow(u) ==
    IF now - LimitsOf(u).last_monthly_reset >= 2629746 THEN 0
    ELSE LimitsOf(u).monthly_spent

StopActive == emergency_stop_key = << TRUE >>

\* The limits and spending counters stored for every user stay as they are.
LimitsAndCountersStay ==
    /\ DOMAIN user_limits' = DOMAIN user_limits
    /\ \A u \in DOMAIN user_limits :
           /\ user_limits'[u].daily_limit = user_limits[u].daily_limit
           /\ user_limits'[u].monthly_limit = user_limits[u].monthly_limit
           /\ user_limits'[u].daily_spent = user_limits[u].daily_spent
           /\ user_limits'[u].monthly_spent = user_limits[u].monthly_spent

\* C23: while the emergency stop is active, every verify_transaction call
\* returns false and changes no spending counter, security metric, alert or
\* recorded attempt, and no call at all changes a stored limit or spending
\* counter, so that resume_operations finds them as they were before the
\* stop; while the stop is not active, verify_transaction accepts exactly the
\* transactions to a recipient not blacklisted that an active user's limits
\* and counters, after any due reset, allow.
C23_StopRefusesTransactions ==
    [][/\ StopActive => LimitsAndCountersStay
       /\ \A u \in SecurityUsers, r \in Recipients, m \in {100, 1000} :
              (/\ last'.op = "verify_transaction"
               /\ verify_transaction(u, r, m, "hash"))
              => IF StopActive
                 THEN /\ last'.value = << FALSE >>
                      /\ UNCHANGED << user_limits, security_metrics, alerts,
                                      alert_counter, transaction_attempts >>
                 ELSE last'.value = << TRUE >>
                      <=> /\ r \notin DOMAIN blacklist
                          /\ LimitsOf(u).is_active
                          /\ DailySpentNow(u) + m <= LimitsOf(u).daily_limit
                          /\ MonthlySpentNow(u) + m <= LimitsOf(u).monthly_limit]_vars

\* C23: with the stop active, a transaction has been refused that the
\* user's limits, after an earlier accepted one, and the blacklist allow.
C23_RefusedWhileStopped ==
    /\ last.op = "verify_transaction"
    /\ last.value = << FALSE >>
    /\ StopActive
    /\ last.subject \notin DOMAIN blacklist
    /\ last.caller \in DOMAIN user_limits
    /\ user_limits[last.caller].is_active
    /\ user_limits[last.caller].daily_spent = 100
    /\ user_limits[last.caller].daily_limit = 1000
    /\ last.caller \in DOMAIN security_metrics
    /\ security_metrics[last.caller].transaction_count_24h = 1

\* C24: emergency_stop, resume_operations, add_to_blacklist,
\* disable_user_limits, enable_user_limits and reset_risk_score called by an
\* address other than the administrator (the address the tests name admin)
\* change nothing of the contract's storage.
C24_AdminOnly ==
    [][\A c \in SecurityCallers \ {"admin"} :
          /\ (last'.op = "emergency_stop" /\ emergency_stop(c))
                 => UNCHANGED security_vars
          /\ (last'.op = "resume_operations" /\ resume_operations(c))
                 => UNCHANGED security_vars
          /\ (last'.op = "add_to_blacklist" /\ add_to_blacklist(c, "suspicious"))
                 => UNCHANGED security_vars
          /\ \A u \in SecurityUsers :
                 /\ (last'.op = "disable_user_limits" /\ disable_user_limits(c, u))
                        => UNCHANGED security_vars
                 /\ (last'.op = "enable_user_limits" /\ enable_user_limits(c, u))
                        => UNCHANGED security_vars
                 /\ (last'.op = "reset_risk_score" /\ reset_risk_score(c, u))
                        => UNCHANGED security_vars]_vars

\* The median of the submissions' prices, each counted once.
UnweightedMedian(subs) ==
    median_of_sorted([i \in 1..Len(subs) |-> SortByPrice(subs)[i].price])

\* The submissions whose price is no more than 10% of m away from m.
WithinTenPercent(subs, m) ==
    LET near(s) == AbsDiff(s.price, m) * 10 <= m
    IN  SelectSeq(subs, near)

\* The submissions of the asset's buffer that are to go into an aggregate:
\* of three or more that pass the validity, staleness and eligibility
\* filter, those within 10% of their unweighted median; of fewer, all.
Contributing(a) ==
    IF Len(ValidSubmissions(price_data[a])) >= 3
    THEN WithinTenPercent(ValidSubmissions(price_data[a]),
                          UnweightedMedian(ValidSubmissions(price_data[a])))
    ELSE ValidSubmissions(price_data[a])

\* The aggregate computed from the given submissions alone.
AggregateOf(a, kept) ==
    AggregatedPrice_new(a, calculate_weighted_median(kept, oracle_nodes).price,
                        Len(kept), calculate_confidence(kept, oracle_nodes),
                        calculate_price_deviation(kept), now)

\* C25: when at least 3 submissions pass the validity, staleness and
\* eligibility filter, exactly those whose price differs from their
\* unweighted median by more than 10% of that median are removed, and when
\* fewer than 3 pass, none is; the weighted median, num_sources, confidence
\* and deviation of an aggregate, returned or stored, are computed from the
\* submissions kept and from no other.
C25_OutliersExcluded ==
    /\ [](\A a \in Assets :
            /\ filter_valid_submissions(price_data[a], oracle_nodes, now)
                   = Contributing(a)
            /\ aggregate_prices(a, price_data[a], oracle_nodes, now).result = "ok"
                   => aggregate_prices(a, price_data[a], oracle_nodes, now).value
                          = << AggregateOf(a, Contributing(a)) >>)
    /\ [][\A a \in Assets :
            (/\ last'.op = "try_aggregate_prices"
             /\ run_try_aggregate_prices(a)
             /\ a \in DOMAIN aggregated_prices')
            => aggregated_prices'[a] = AggregateOf(a, Contributing(a))]_vars

\* C25: an aggregation has just stored a price computed from three of four
\* submissions that passed the filter, the fourth being more than 10% above
\* their median.
C25_OutlierLeftOut ==
    /\ last.op = "try_aggregate_prices"
    /\ last.result = "ok"
    /\ "XLM" \in DOMAIN aggregated_prices
    /\ Len(ValidSubmissions(price_data["XLM"])) = 4
    /\ aggregated_prices["XLM"].num_sources = 3
    /\ aggregated_prices["XLM"].price = 1000000
    /\ \E i \in 1..4 : price_data["XLM"][i].price = 1100001

\* The injective maps of 1..n into itself.
Reorders(n) ==
    {f \in [1..n -> 1..n] : \A i, j \in 1..n : f[i] = f[j] => i = j}

\* Every permutation of a list.
Reorderings(subs) ==
    {[i \in 1..Len(subs) |-> subs[f[i]]] : f \in Reorders(Len(subs))}

\* C26: for every permutation of the same submission list, with the same
\* registry and ledger time, aggregate_prices returns the same outcome: the
\* same error, or the same price, num_sources, confidence and deviation.
C26_OrderIndependent ==
    \A a \in Assets :
        \A q \in Reorderings(price_data[a]) :
            aggregate_prices(a, q, oracle_nodes, now)
                = aggregate_prices(a, price_data[a], oracle_nodes, now)

\* C26: an aggregation has just stored the price of a buffer of four
\* submissions of two nodes that is not in ascending order of price, and
\* aggregate_prices returns that same price for the buffer reversed.
C26_ReversedBufferSamePrice ==
    /\ last.op = "try_aggregate_prices"
    /\ last.result = "ok"
    /\ "XLM" \in DOMAIN aggregated_prices
    /\ Len(price_data["XLM"]) = 4
    /\ price_data["XLM"][1].price > price_data["XLM"][2].price
    /\ price_data["XLM"][1].oracle_node # price_data["XLM"][2].oracle_node
    /\ Reverse(price_data["XLM"]) # price_data["XLM"]
    /\ aggregate_prices("XLM", Reverse(price_data["XLM"]), oracle_nodes, now).value
           = << aggregated_prices["XLM"] >>

\* The relation between a node's counters and its score.
ReputationRelation(node) ==
    /\ node.accurate_submissions <= node.total_submissions
    /\ node.reputation_score =
           IF node.total_submissions < 10 THEN 100
           ELSE Min2(100, (node.accurate_submissions * 100)
                              \div node.total_submissions)

\* record_outcome with the given verdict adds 1 to the node's
\* total_submissions, 1 to its accurate_submissions iff the verdict is
\* accurate, changes no other field but the score and leaves the relation
\* holding.
RecordsOutcome(node, was_accurate) ==
    LET after == update_reputation(node, was_accurate)
    IN  /\ after.total_submissions = node.total_submissions + 1
        /\ after.accurate_submissions =
               node.accurate_submissions + (IF was_accurate THEN 1 ELSE 0)
        /\ [after EXCEPT !.reputation_score = node.reputation_score]
               = [node EXCEPT !.total_submissions = @ + 1,
                              !.accurate_submissions =
                                  @ + (IF was_accurate THEN 1 ELSE 0)]
        /\ ReputationRelation(after)

\* C27: in every reachable state every node has accurate_submissions <=
\* total_submissions and a score of 100 while total_submissions < 10 and of
\* min(100, floor(accurate_submissions * 100 / total_submissions)) from then
\* on; record_outcome adds 1 to total_submissions, 1 to
\* accurate_submissions iff the verdict is accurate, and re-establishes the
\* relation; no step takes a counter of a registered node down or moves
\* accurate_submissions by more than total_submissions.
C27_ReputationRelation ==
    /\ [](\A n \in DOMAIN oracle_nodes :
            /\ ReputationRelation(oracle_nodes[n])
            /\ \A v \in BOOLEAN : RecordsOutcome(oracle_nodes[n], v))
    /\ [][\A n \in DOMAIN oracle_nodes \cap DOMAIN oracle_nodes' :
            /\ oracle_nodes'[n].accurate_submissions
                   >= oracle_nodes[n].accurate_submissions
            /\ oracle_nodes'[n].total_submissions
                       - oracle_nodes[n].total_submissions
                   >= oracle_nodes'[n].accurate_submissions
                          - oracle_nodes[n].accurate_submissions]_vars

\* C27: an aggregation has just judged a submission of a node that has more
\* than 10 outcomes on record, not all of them accurate.
C27_ScoreBelowHundred ==
    /\ last.op = "try_aggregate_prices"
    /\ last.result = "ok"
    /\ \E n \in DOMAIN oracle_nodes :
           /\ oracle_nodes[n].total_submissions > 10
           /\ oracle_nodes[n].accurate_submissions
                  < oracle_nodes[n].total_submissions
           /\ oracle_nodes[n].reputation_score < 100

\* The submission's price is within 5% of the aggregated price.
JudgedAccurate(s, aggregated_price) ==
    (AbsDiff(s.price, aggregated_price) * 100) \div aggregated_price <= 5

\* The positions of the list that hold a submission of node n.
PositionsOf(subs, n) == {i \in 1..Len(subs) : subs[i].oracle_node = n}

MeetsReliability(p) ==
    p.num_sources >= 3 /\ p.confidence >= 70 /\ p.deviation <= 10

\* C30: an aggregate that fails is_reliable is never stored: every
\* AggregatedPrice held as an asset's current price or in an asset's history
\* has num_sources >= 3, confidence >= 70 and deviation <= 10, and get_price
\* never returns unreliable_price.
C30_OnlyReliableStored ==
    /\ \A a \in DOMAIN aggregated_prices : MeetsReliability(aggregated_prices[a])
    /\ \A a \in Assets :
           /\ \A i \in 1..Len(price_history[a]) :
                  MeetsReliability(price_history[a][i])
           /\ get_price_outcome(a).result # "unreliable_price"
    /\ last.op = "get_price" => last.result # "unreliable_price"

\* C30: a submit_price call has just computed an aggregate that is not
\* reliable and returned unreliable_price, and the price stored before, its
\* history entry and what get_price returns are reliable as they were.
C30_UnreliableAggregateDiscarded ==
    /\ last.op = "submit_price"
    /\ last.result = "unreliable_price"
    /\ ~MeetsReliability(AggregateOf("XLM", Contributing("XLM")))
    /\ "XLM" \in DOMAIN aggregated_prices
    /\ price_history["XLM"] # << >>
    /\ get_price_outcome("XLM").result = "ok"

\* Requests at ledger time t failing any number of the checks on the price,
\* the timestamp and the signature at once, the timestamps lying on both
\* sides of the two limits.
FaultyRequests(t) ==
    {[asset_symbol |-> "XLM", price |-> p, timestamp |-> ts, signature |-> sg] :
        p \in {0, 1000000, MAX_PRICE + 1},
        ts \in {t, t + 60, t + 61}
                \cup (IF t > 300 THEN {t - 300, t - 301} ELSE {}),
        sg \in {"", SigTest, Sig64}}

\* The node has used up the 60 submissions of a window that has not ended.
RateLimited(c) ==
    /\ c \in DOMAIN rate_limits
    /\ now - rate_limits[c].window_start < 3600
    /\ rate_limits[c].submission_count >= 60

\* The error of the first failing check, in the order: registration,
\* eligibility, rate limit, price, timestamp, signature; "none" when no
\* check fails.
FirstFailure(c, r) ==
    IF c \notin DOMAIN oracle_nodes THEN "unregistered_node"
    ELSE IF ~is_eligible(oracle_nodes[c], now) THEN "node_not_eligible"
    ELSE IF RateLimited(c) THEN "rate_limit_exceeded"
    ELSE IF r.price = 0 THEN "invalid_price_zero"
    ELSE IF r.price > MAX_PRICE THEN "price_too_high"
    ELSE IF now - r.timestamp > 300 THEN "timestamp_too_old"
    ELSE IF r.timestamp > now + 60 THEN "timestamp_in_future"
    ELSE IF r.signature = "" THEN "missing_signature"
    ELSE IF Len(r.signature) < 64 THEN "invalid_signature_format"
    ELSE "none"

\* C29: submit_price reports the error of the first failing check in the
\* order unregistered_node, node_not_eligible, rate_limit_exceeded, price
\* errors, timestamp errors (too old when now - timestamp > 300, in the
\* future when timestamp > now + 60), signature errors, and none of these
\* errors when no check fails; so did the call just made.
C29_FirstFailingCheck ==
    /\ [](\A c \in Address, r \in FaultyRequests(now) :
            IF FirstFailure(c, r) = "none"
            THEN submit_price_outcome(c, r).result \notin ValidationErrors
            ELSE submit_price_outcome(c, r).result = FirstFailure(c, r))
    /\ [][\A c \in Address, r \in Requests(now) :
            (/\ last'.op = "submit_price"
             /\ submit_price(c, r)
             /\ r.asset_symbol # ""
             /\ FirstFailure(c, r) # "none")
            => last'.result = FirstFailure(c, r)]_vars

\* C29: a registered, eligible node that has used up its window has just
\* sent price 0 and got rate_limit_exceeded, and an unregistered submitter
\* sending price 0 gets unregistered_node.
C29_RateLimitBeforePrice ==
    /\ last.op = "submit_price"
    /\ last.result = "rate_limit_exceeded"
    /\ last.caller \in DOMAIN oracle_nodes
    /\ is_eligible(oracle_nodes[last.caller], now)
    /\ RateLimited(last.caller)
    /\ submit_price_outcome(last.caller,
                            [GoodRequest("XLM", 0, now) EXCEPT !.signature = ""]).result
           = "rate_limit_exceeded"
    /\ \E c \in Address \ DOMAIN oracle_nodes :
           submit_price_outcome(c, GoodRequest("XLM", 0, now)).result
               = "unregistered_node"

\* C31: slash_stake sets the node's stake to max(0, stake - amount), sets
\* is_active to false when that stake is below MIN_STAKE_AMOUNT and never
\* sets it to true; and in every reachable state every node with is_active
\* = true has stake_amount >= MIN_STAKE_AMOUNT.
C31_ActiveNodesHoldStake ==
    /\ [](\A n \in DOMAIN oracle_nodes :
            oracle_nodes[n].is_active => oracle_nodes[n].stake_amount >= 1000)
    /\ [][\A n \in NodeAddress, m \in SlashAmounts :
            (last'.op = "slash_stake" /\ slash_node(n, m))
            => oracle_nodes'[n] =
                   [oracle_nodes[n] EXCEPT
                       !.stake_amount = IF @ > m THEN @ - m ELSE 0,
                       !.is_active = IF oracle_nodes[n].stake_amount - m < 1000
                                     THEN FALSE ELSE @]]_vars

\* C31: a slash has just taken an active node's stake below
\* MIN_STAKE_AMOUNT without exhausting it, and the node is inactive.
C31_SlashedBelowMinimum ==
    /\ last.op = "slash_stake"
    /\ last.subject \in DOMAIN oracle_nodes
    /\ oracle_nodes[last.subject].stake_amount = 999
    /\ ~oracle_nodes[last.subject].is_active
    /\ submit_price_outcome(last.subject, GoodRequest("XLM", 1000000, now)).result
           = "node_not_eligible"

\* The stored submissions of node n for the asset whose ledger time lies in
\* [t, t + 3600): submit_price stores every submission the rate limiter
\* accepted, with the ledger time of the call.
AcceptedWithinHour(a, n, t) ==
    {i \in 1..Len(price_data[a]) :
        /\ price_data[a][i].oracle_node = n
        /\ t <= price_data[a][i].timestamp
        /\ price_data[a][i].timestamp < t + 3600}

\* C32: for every node and every time t, at most 2 *
\* MAX_SUBMISSIONS_PER_HOUR (120) submissions of the node were accepted by
\* the rate limiter with ledger time in [t, t + 3600).  An interval holds no
\* more than the one that starts at its first submission.
C32_BurstAtMostTwoWindows ==
    \A a \in Assets, n \in DOMAIN oracle_nodes :
        \A i \in 1..Len(price_data[a]) :
            Cardinality(AcceptedWithinHour(a, n, price_data[a][i].timestamp)) <= 120

\* C32: 120 submissions of one node were accepted within two seconds, 60
\* in the last second of a window and 60 in the first of the next.
C32_BurstAcrossBoundary ==
    /\ last.op = "submit_price"
    /\ now = 3600
    /\ Cardinality(AcceptedWithinHour("XLM", "oracle1", 3599)) = 120
    /\ Cardinality(AcceptedWithinHour("XLM", "oracle1", 3600)) = 60

\* The submissions of the list that are no older than 300 s.
NoOlderThan300(subs) ==
    LET young(x) == now - x.timestamp <= 300
    IN  SelectSeq(subs, young)

\* The results of a submit_price call that was refused before it stored
\* anything.
RefusedResults == ValidationErrors \cup {"emergency_stop_active", "not_initialized"}

\* C33: an accepted submit_price stores the submission; it runs the
\* aggregator, on the submissions no older than 300 s, exactly when the
\* buffer as stored holds at least 3 of them, and returns what the aggregator
\* returned; with fewer it returns Ok and leaves the asset's aggregated
\* price, its history and every node record unchanged.
C33_AggregatesOnThreeRecent ==
    [][\A cp \in ScenarioSubmissions :
          (/\ last'.op = "submit_price"
           /\ submit_price(cp[1], GoodRequest("XLM", cp[2], now))
           /\ last'.result \notin RefusedResults)
          => /\ price_data'["XLM"] # << >>
             /\ LET stored == price_data'["XLM"][Len(price_data'["XLM"])]
                IN  /\ stored.oracle_node = cp[1]
                    /\ stored.price = cp[2]
                    /\ stored.timestamp = now
             /\ IF Len(NoOlderThan300(price_data'["XLM"])) < 3
                THEN /\ last'.result = "ok"
                     /\ UNCHANGED << aggregated_prices, price_history, oracle_nodes >>
                ELSE last'.result =
                         aggregate_prices("XLM", NoOlderThan300(price_data'["XLM"]),
                                          oracle_nodes, now).result]_vars

\* C33: a submit_price call has just returned Ok with three submissions in
\* the buffer of which fewer than three are no older than 300 s, and no
\* aggregated price is stored.
C33_TooFewRecent ==
    /\ last.op = "submit_price"
    /\ last.result = "ok"
    /\ Len(price_data["XLM"]) = 3
    /\ Len(NoOlderThan300(price_data["XLM"])) < 3
    /\ "XLM" \notin DOMAIN aggregated_prices
    /\ price_history["XLM"] = << >>

\* The valid prices of the buffer that are at most 24 hours old.
ValidOfLastDay(subs) ==
    LET counted(x) == is_valid(x) /\ now - x.timestamp <= 86400
        kept == SelectSeq(subs, counted)
    IN  [i \in 1..Len(kept) |-> kept[i].price]

\* The tier of d = floor(|price - mean| * 100 / mean), d taken whole: d is
\* above 50 whenever the difference reaches the mean.
TierOfDeviation(prices, price) ==
    LET mean == SeqSum(prices) \div Len(prices)
    IN  IF AbsDiff(price, mean) \div mean >= 1 THEN 50
        ELSE confidence_tier((AbsDiff(price, mean) * 100) \div mean)

ClaimedConfidence(subs, price) ==
    IF ValidOfLastDay(subs) = << >> THEN 50
    ELSE TierOfDeviation(ValidOfLastDay(subs), price)

C34_WrappedDeviation ==
    /\ last.op = "validate_against_historical_data"
    /\ last.value = << 1073741825, 95 >>
    /\ ValidOfLastDay(price_data["XLM"]) = << 1 >>

\* C35: an asset has a current aggregated price exactly when its history is
\* not empty, the current price is then the last entry of the history, and
\* the timestamps of the history never decrease.
C35_CurrentIsLastOfHistory ==
    \A a \in Assets :
        /\ (a \in DOMAIN aggregated_prices) <=> (price_history[a] # << >>)
        /\ a \in DOMAIN aggregated_prices
               => aggregated_prices[a] = price_history[a][Len(price_history[a])]
        /\ \A i \in 1..Len(price_history[a]) - 1 :
               price_history[a][i].timestamp <= price_history[a][i + 1].timestamp

\* C35: two aggregations at different ledger times are on record, the later
\* one being the current price.
C35_TwoAggregationsOnRecord ==
    /\ Len(price_history["XLM"]) = 2
    /\ price_history["XLM"][1].timestamp < price_history["XLM"][2].timestamp
    /\ aggregated_prices["XLM"] = price_history["XLM"][2]

\* What a gated entry point returns to a deactivated node: the emergency
\* stop answers first, then the check named.
RefusalOf(check) ==
    IF config # << >> /\ config[1].emergency_stop THEN "emergency_stop_active"
    ELSE check

\* C36: no step removes an address from the registry or sets is_active
\* back to true; to a deactivated node, register_oracle_node answers
\* node_already_registered and submit_price node_not_eligible (both answer
\* emergency_stop_active while the emergency stop is set).
C36_DeactivationPermanent ==
    [][/\ DOMAIN oracle_nodes \subseteq DOMAIN oracle_nodes'
       /\ \A n \in DOMAIN oracle_nodes :
            ~oracle_nodes[n].is_active
            => /\ ~oracle_nodes'[n].is_active
               /\ (ticks' = ticks /\ last'.op = "register_oracle_node" /\ last'.caller = n)
                  => last'.result = RefusalOf("node_already_registered")
               /\ (ticks' = ticks /\ last'.op = "submit_price" /\ last'.caller = n)
                  => last'.result = RefusalOf("node_not_eligible")]_vars

\* C36: a deactivated node that still holds the minimum stake has just had
\* a submit_price refused with node_not_eligible.
C36_DeactivatedNodeRefused ==
    /\ last.op = "submit_price"
    /\ last.result = "node_not_eligible"
    /\ last.caller \in DOMAIN oracle_nodes
    /\ ~oracle_nodes[last.caller].is_active
    /\ oracle_nodes[last.caller].stake_amount >= MIN_STAKE_AMOUNT

\* The nodes whose submissions go into an aggregate of the asset's buffer.
ContributingNodes(a) ==
    {Contributing(a)[i].oracle_node : i \in 1..Len(Contributing(a))}

PaymentDue(schedule) ==
    /\ schedule.status = "Active"
    /\ schedule.balance >= schedule.amount
    /\ IF schedule.payment_count = 0 THEN now >= schedule.start_time
       ELSE now >= schedule.next_payment_time
    /\ schedule.end_time # << >> => now <= schedule.end_time[1]

FrequencyInterval(frequency) ==
    IF frequency = "Daily" THEN 86400
    ELSE IF frequency = "Weekly" THEN 604800
    ELSE 2592000

\* C39: execute_payment moves the schedule's amount to the recipient only
\* when the schedule is Active, holds the amount, and the ledger time has
\* reached start_time (first payment) or next_payment_time (later ones)
\* without passing end_time; otherwise it returns ScheduleNotFound,
\* ScheduleNotActive or PaymentNotDue and changes nothing; a payment after
\* the first comes at least one frequency interval after the one before.
C39_PaysOnlyWhenDue ==
    [][\A i \in ScheduleIds :
          (last'.op = "execute_payment" /\ execute_payment(i))
          => IF i \in DOMAIN schedules /\ PaymentDue(schedules[i])
             THEN /\ last'.result = "ok"
                  /\ token_balances'[schedules[i].recipient]
                         = token_balances[schedules[i].recipient] + schedules[i].amount
                  /\ schedules[i].payment_count > 0
                         => now - schedules[i].last_payment_at[1]
                                >= FrequencyInterval(schedules[i].frequency)
             ELSE /\ last'.result =
                         IF i \notin DOMAIN schedules THEN "ScheduleNotFound"
                         ELSE IF schedules[i].status # "Active" THEN "ScheduleNotActive"
                         ELSE "PaymentNotDue"
                  /\ UNCHANGED payment_vars]_vars

\* C39: the second payment of a monthly schedule has just been made, 30
\* days after the first.
C39_SecondMonthlyPayment ==
    /\ last.op = "execute_payment"
    /\ last.result = "ok"
    /\ 1 \in DOMAIN schedules
    /\ schedules[1].frequency = "Monthly"
    /\ schedules[1].payment_count = 2
    /\ schedules[1].last_payment_at = << 2592000 >>

\* The schedule is due and the contract does not hold the amount: the
\* transfer of execute_payment fails.
TransferFails(schedule) ==
    /\ PaymentDue(schedule)
    /\ token_balances["contract"] < schedule.amount

\* C40: a failed transfer in execute_payment returns PaymentFailed and adds
\* 1 to the schedule's failed_attempts, the schedule becoming Inactive
\* exactly when that makes 3; a successful payment resets failed_attempts to
\* 0; and an Active schedule always has failed_attempts below 3.
C40_ThirdFailureDeactivates ==
    /\ [](\A i \in DOMAIN schedules :
             schedules[i].status = "Active" => schedules[i].failed_attempts < 3)
    /\ [][\A i \in 1..MaxSchedules :
             (last'.op = "execute_payment" /\ execute_payment(i)
              /\ i \in DOMAIN schedules)
             => /\ TransferFails(schedules[i])
                   => /\ last'.result = "PaymentFailed"
                      /\ schedules'[i].failed_attempts
                             = schedules[i].failed_attempts + 1
                      /\ schedules'[i].status =
                             IF schedules[i].failed_attempts + 1 >= 3
                             THEN "Inactive" ELSE "Active"
                /\ last'.result = "ok" => schedules'[i].failed_attempts = 0]_vars

====
